---------------------------- MODULE Spec2Model ----------------------------
(***************************************************************************)
(* A model of the tennis-hotel pipeline: the listing extractor and the two *)
(* page walkers of hotel_scraper.py, the relational loader of              *)
(* consolidate_data.py and the geocoder of add_geocoding.py.               *)
(*                                                                         *)
(* Texts are sequences of chunks.  A chunk is one character ("4", ".",     *)
(* " ", "\n") or a run of characters that no pattern of the code can match *)
(* in part ("Hotel in", "Rome"); the text is the concatenation of its      *)
(* chunks.  The currency glyphs are the chunks "pound", "dollar", "euro".  *)
(* Python's None and "absent element" are the empty tuple <<>> where the   *)
(* alternative is a one-element tuple <<v>>.                               *)
(***************************************************************************)
EXTENDS Integers, Sequences, FiniteSets, TLC

\* ------------------------------------------------------------------ bounds
MaxPages == 2
MaxListings == 1
MaxFaults == 1

VARIABLES
    pc,                 \* position of the running operation
    current_page,       \* scrape_hotels / scrape_all_countries: loop cursor
    total_pages,        \* result of get_total_pages
    all_hotels_data,    \* scrape_hotels: accumulated records
    country_idx,        \* scrape_all_countries: index into european_countries
    country_hotels,     \* scrape_all_countries: records of the country in progress
    all_countries_data, \* scrape_all_countries: records of the finished countries
    disk,               \* the working directory: file name -> content
    clock,              \* datetime.now(), one tick per reading
    pagination,         \* titles of the pagination links the first page showed
    requested,          \* page numbers requested from the site, in order
    extracted,          \* page numbers whose listings were extracted, in order
    navOk,              \* no navigation step of the walk has failed so far
    faults,             \* file-write failures so far
    ckpt_ok,            \* the last save_checkpoint call wrote both files
    sweepLog,           \* per country swept: how its sweep ended
    delays,             \* random_delay calls so far, per configured range
    fragment,           \* extractor specification: the listing fragment
    hotel_data,         \* extractor specification: what extract_hotel_data returned
    db,                 \* tennis_hotels.db: the rows of its tables
    passes,             \* per process_json_file call: the file, what it returned, the row counts
    total_hotels,       \* what the last consolidate_all_files call returned, and on what
    cache,              \* GeocodingUpdater.cache
    cache_file,         \* geocode_cache.json
    geo_calls,          \* per (location, country): how each geocode_location call was answered
    dash                \* the dashboard: its Amadeus client and the last run of the Amadeus tab

scraperVars_but_pc == <<current_page, total_pages, all_hotels_data, country_idx,
                        country_hotels, all_countries_data, disk, clock, pagination,
                        requested, extracted, navOk, faults, ckpt_ok, sweepLog, delays>>
extractVars == <<fragment, hotel_data>>
storeVars == <<db, passes, total_hotels>>
geoVars == <<cache, cache_file, geo_calls>>
dashVars == <<dash>>
vars == <<pc, current_page, total_pages, all_hotels_data, country_idx, country_hotels,
          all_countries_data, disk, clock, pagination, requested, extracted, navOk,
          faults, ckpt_ok, sweepLog, delays, fragment, hotel_data, db, passes, total_hotels,
          cache,          cache_file, geo_calls, dash>>

\* ------------------------------------------------------------ text helpers
None == <<>>
Some(v) == <<v>>

IsPrefix(p, s) == Len(p) <= Len(s) /\ SubSeq(s, 1, Len(p)) = p
Drop(s, n) == SubSeq(s, n + 1, Len(s))

IsSpace(c) == c \in {" ", "\n", "\t"}

RECURSIVE LStrip(_)
LStrip(s) == IF s # <<>> /\ IsSpace(Head(s)) THEN LStrip(Tail(s)) ELSE s

RECURSIVE RStrip(_)
RStrip(s) ==
    IF s # <<>> /\ IsSpace(s[Len(s)]) THEN RStrip(SubSeq(s, 1, Len(s) - 1)) ELSE s

\* str.strip()
Strip(s) == RStrip(LStrip(s))

\* str.rstrip(chars)
RECURSIVE RStripChars(_, _)
RStripChars(s, chars) ==
    IF s # <<>> /\ s[Len(s)] \in chars
    THEN RStripChars(SubSeq(s, 1, Len(s) - 1), chars)
    ELSE s

\* str.replace(p, r): every non-overlapping occurrence, left to right
RECURSIVE Replace(_, _, _)
Replace(s, p, r) ==
    IF s = <<>> THEN <<>>
    ELSE IF IsPrefix(p, s) THEN r \o Replace(Drop(s, Len(p)), p, r)
    ELSE <<Head(s)>> \o Replace(Tail(s), p, r)

\* str.split(sep): the list of parts
RECURSIVE SplitAcc(_, _, _)
SplitAcc(s, sep, cur) ==
    IF s = <<>> THEN <<cur>>
    ELSE IF IsPrefix(sep, s) THEN <<cur>> \o SplitAcc(Drop(s, Len(sep)), sep, <<>>)
    ELSE SplitAcc(Tail(s), sep, Append(cur, Head(s)))

Split(s, sep) == SplitAcc(s, sep, <<>>)

Digits == {"0", "1", "2", "3", "4", "5", "6", "7", "8", "9"}

DigitVal(c) ==
    CASE c = "0" -> 0 [] c = "1" -> 1 [] c = "2" -> 2 [] c = "3" -> 3 [] c = "4" -> 4
      [] c = "5" -> 5 [] c = "6" -> 6 [] c = "7" -> 7 [] c = "8" -> 8 [] c = "9" -> 9

DigitChunk(n) ==
    CASE n = 0 -> "0" [] n = 1 -> "1" [] n = 2 -> "2" [] n = 3 -> "3" [] n = 4 -> "4"
      [] n = 5 -> "5" [] n = 6 -> "6" [] n = 7 -> "7" [] n = 8 -> "8" [] n = 9 -> "9"

\* str.isdigit()
IsDigitText(s) == s # <<>> /\ \A i \in 1..Len(s) : s[i] \in Digits

RECURSIVE DecimalValue(_)
DecimalValue(s) ==
    IF s = <<>> THEN 0 ELSE 10 * DecimalValue(SubSeq(s, 1, Len(s) - 1)) + DigitVal(s[Len(s)])


\* A real number m / 10^e, with e as small as it can be.
RECURSIVE Normal(_, _)
Normal(m, e) == IF e > 0 /\ m % 10 = 0 THEN Normal(m \div 10, e - 1) ELSE [m |-> m, e |-> e]

\* float(text): None when Python raises ValueError.  The texts of the model
\* hold no letter of "inf", "nan" or an exponent and no underscore, so the
\* literal is an optional sign, digits and at most one point.
ParseFloat(s) ==
    LET t == Strip(s)
        signed == t # <<>> /\ Head(t) \in {"+", "-"}
        body == IF signed THEN Tail(t) ELSE t
        points == {i \in 1..Len(body) : body[i] = "."}
        digits == SelectSeq(body, LAMBDA c : c \in Digits)
        wellFormed == /\ Cardinality(points) <= 1
                      /\ digits # <<>>
                      /\ \A i \in 1..Len(body) : body[i] \in Digits \cup {"."}
        scale == IF points = {} THEN 0 ELSE Len(body) - (CHOOSE i \in points : TRUE)
        mag == Normal(DecimalValue(digits), scale)
    IN  IF ~wellFormed THEN None
        ELSE Some([m |-> IF signed /\ Head(t) = "-" THEN 0 - mag.m ELSE mag.m,
                   e |-> mag.e])


\* ------------------------------------------------- TravelmythScraper state
european_countries == <<"World", "Portugal">>

\* str.lower() of a country name
Lower(country) ==
    CASE country = "World" -> "world"
      [] country = "Portugal" -> "portugal"
      [] OTHER -> country

\* ------------------------------------------------------ extract_hotel_data
\* An element of the fragment: present or not, and its inner text.
Elem(text) == [present |-> TRUE, text |-> text]
NoElem == [present |-> FALSE, text |-> <<>>]

prefixes_to_remove ==
    << <<"Hotel in">>, <<"Resort in">>, <<"Guest House in">>, <<"Bed & Breakfast in">>,
       <<"Country House in">>, <<"Hostel in">>, <<"Apartment in">>, <<"Aparthotel in">>,
       <<"Villa in">> >>

InitialHotelData(now) ==
    [name |-> <<>>,
     location |-> <<>>,
     country |-> <<>>,
     source_country |-> european_countries[1],
     star_rating |-> 0,
     rating_score |-> None,
     rating_text |-> <<>>,
     price |-> [amount |-> None,
                currency |-> "USD",
                provider |-> <<>>,
                room_type |-> <<>>,
                cancellation_policy |-> <<>>],
     tennis_facilities |-> [total_courts |-> 0,
                            lighted_courts |-> 0,
                            court_surfaces |-> <<>>,
                            surface_counts |-> <<>>,
                            opening_hours |-> <<>>,
                            court_cost |-> <<>>,
                            lessons_available |-> FALSE,
                            lessons_cost |-> <<>>,
                            equipment_rental |-> FALSE,
                            equipment_cost |-> <<>>,
                            requirements |-> <<>>,
                            tennis_camps |-> FALSE,
                            tournaments |-> FALSE,
                            tennis_shop |-> FALSE,
                            additional_info |-> <<>>],
     scrape_timestamp |-> now]

\* lines 98-104
ExtractName(data, f) ==
    IF f.name.present THEN [data EXCEPT !.name = Strip(f.name.text)] ELSE data

\* lines 126-130: the first prefix the text starts with is replaced away
RemovePrefix(location) ==
    LET hits == {i \in 1..Len(prefixes_to_remove) : IsPrefix(prefixes_to_remove[i], location)}
    IN  IF hits = {} THEN location
        ELSE LET first == CHOOSE i \in hits : \A j \in hits : i <= j
             IN  Strip(Replace(location, prefixes_to_remove[first], <<>>))

\* lines 106-149
ExtractLocation(data, f) ==
    IF ~f.location.present THEN data
    ELSE LET location_text == Strip(f.location.text)
             location == Strip(Split(RemovePrefix(location_text), <<"Show on Map">>)[1])
             split == Split(location, <<"\n">>)
             kept == SelectSeq(split, LAMBDA part : Strip(part) # <<>>)
             parts == [i \in 1..Len(kept) |-> Strip(kept[i])]
         IN  IF parts = <<>> THEN data
             ELSE [data EXCEPT !.location = RStripChars(parts[1], {","}),
                               !.country = IF Len(parts) > 1 THEN parts[2] ELSE <<>>]

\* lines 151-153
ExtractStars(data, f) == [data EXCEPT !.star_rating = f.stars]

\* line 159: float() of the score text, unguarded: TRUE when it raises ValueError
RatingRaises(f) == f.rating_score.present /\ ParseFloat(Strip(f.rating_score.text)) = None

\* lines 155-161
ExtractRating(data, f) ==
    LET scored == IF f.rating_score.present
                  THEN [data EXCEPT !.rating_score = ParseFloat(Strip(f.rating_score.text))]
                  ELSE data
    IN  IF f.rating_text.present
        THEN [scored EXCEPT !.rating_text = Strip(f.rating_text.text)]
        ELSE scored

\* A faulty variant of the amount: the currency is set before the text is
\* parsed.
ExtractAmountCurrencyFirst(price, box) ==
    IF ~box.amount.present THEN price
    ELSE [price EXCEPT
             !.amount = ParseFloat(Replace(Replace(Replace(Replace(Strip(box.amount.text),
                            <<"pound">>, <<>>), <<"dollar">>, <<>>), <<"euro">>, <<>>),
                            <<",">>, <<>>)),
             !.currency = "GBP"]

\* A faulty variant of the amount: the thousands separators are left in.
ExtractAmountWithSeparators(price, box) ==
    IF ~box.amount.present THEN price
    ELSE LET stripped == Strip(box.amount.text)
             price_text == Replace(Replace(Replace(stripped,
                               <<"pound">>, <<>>), <<"dollar">>, <<>>), <<"euro">>, <<>>)
             amount == ParseFloat(price_text)
         IN  IF amount # None
             THEN [price EXCEPT !.amount = amount, !.currency = "GBP"]
             ELSE [price EXCEPT !.amount = None]

\* lines 171-180
ExtractAmount(price, box) ==
    IF ~box.amount.present THEN price
    ELSE LET stripped == Strip(box.amount.text)
             price_text == Replace(Replace(Replace(Replace(stripped,
                               <<"pound">>, <<>>), <<"dollar">>, <<>>), <<"euro">>, <<>>),
                               <<",">>, <<>>)
             amount == ParseFloat(price_text)
         IN  IF amount # None
             THEN [price EXCEPT !.amount = amount, !.currency = "GBP"]
             ELSE [price EXCEPT !.amount = None]

\* lines 181-183: the file name of the logo without ".png"
ProviderName(src) ==
    LET segments == Split(src, <<"/">>)
    IN  Replace(segments[Len(segments)], <<".png">>, <<>>)

\* lines 163-187
ExtractPrice(data, f) ==
    IF ~f.price_box.present THEN data
    ELSE [data EXCEPT !.price =
             [ExtractAmount(data.price, f.price_box) EXCEPT
                 !.provider = IF f.price_box.provider.present
                              THEN ProviderName(f.price_box.provider.text) ELSE @,
                 !.room_type = IF f.price_box.room_type.present
                               THEN Strip(f.price_box.room_type.text) ELSE @,
                 !.cancellation_policy = IF f.price_box.cancellation.present
                                         THEN Strip(f.price_box.cancellation.text)
                                         ELSE @]]

\* ---------------------------------------------------- the facilities panel
\* The panel (".tab-height") is a list of rows ("div.tabs_content_font"), each
\* with a label, a value and the texts of its surface elements.  The chunks
\* of a label or a value are cut so that every pattern of the code is a
\* sequence of whole chunks: "Tennis courts total" is
\* <<"Tennis ", "Court", "s", " total">>.
NoPanel == [present |-> FALSE, rows |-> <<>>]

\* str.lower(), chunk by chunk
LowerChunk(c) ==
    CASE c = "Number of all " -> "number of all "
      [] c = "Tennis " -> "tennis "
      [] c = "Court" -> "court"
      [] c = "Lighted" -> "lighted"
      [] c = "Lessons" -> "lessons"
      [] c = "Equipment" -> "equipment"
      [] c = "Opening hours" -> "opening hours"
      [] c = "Surface" -> "surface"
      [] c = "Cost" -> "cost"
      [] c = "No" -> "no"
      [] c = "Yes" -> "yes"
      [] c = "EUR" -> "eur"
      [] OTHER -> c
LowerText(s) == [i \in 1..Len(s) |-> LowerChunk(s[i])]

\* pattern in text
Contains(s, pattern) ==
    \E i \in 0..(Len(s) - Len(pattern)) : SubSeq(s, i + 1, i + Len(pattern)) = pattern

\* str.isdigit() of one character: the decimal digits and the superscript
\* two, which int() refuses
IsDigitChar(c) == c \in Digits \cup {"sup2"}

\* int(''.join(filter(str.isdigit, text))): None when int raises ValueError
DigitsToInt(text) ==
    IF IsDigitText(SelectSeq(text, IsDigitChar))
    THEN Some(DecimalValue(SelectSeq(text, IsDigitChar)))
    ELSE None

\* A faulty variant of the surface rule: the name is appended and the count
\* added whether or not the surface is known.
AddSurfaceAgain(tf, surface_text) ==
    LET parts == Split(surface_text, <<"Number of courts:">>)
    IN  IF Len(parts) # 2 \/ DigitsToInt(parts[2]) = None THEN tf
        ELSE [tf EXCEPT
                 !.court_surfaces = Append(@, Strip(parts[1])),
                 !.surface_counts =
                     Append(@, [surface |-> Strip(parts[1]), count |-> DigitsToInt(parts[2])[1]])]

\* lines 252-262: one surface element; surface_counts is kept as the list of
\* its items in insertion order
AddSurface(tf, surface_text) ==
    LET parts == Split(surface_text, <<"Number of courts:">>)
        surface_type == Strip(parts[1])
        known == {i \in 1..Len(tf.surface_counts) : tf.surface_counts[i].surface = surface_type}
    IN  IF Len(parts) # 2 \/ DigitsToInt(parts[2]) = None THEN tf
        ELSE [tf EXCEPT
                 !.court_surfaces =
                     IF \E i \in 1..Len(@) : @[i] = surface_type THEN @
                     ELSE Append(@, surface_type),
                 !.surface_counts =
                     IF known = {}
                     THEN Append(@, [surface |-> surface_type, count |-> DigitsToInt(parts[2])[1]])
                     ELSE [i \in 1..Len(@) |->
                              IF i \in known
                              THEN [@[i] EXCEPT !.count = DigitsToInt(parts[2])[1]]
                              ELSE @[i]]]

\* lines 248-262
RECURSIVE AddSurfaces(_, _)
AddSurfaces(tf, surface_texts) ==
    IF surface_texts = <<>> THEN tf
    ELSE AddSurfaces(AddSurface(tf, Strip(Head(surface_texts))), Tail(surface_texts))

\* line 276
no_texts == {<<"no">>, <<"greek_no">>, <<"russian_no">>}

\* lines 272-282
Lessons(tf, value_text) ==
    [tf EXCEPT
        !.lessons_available =
            ~\E no_text \in no_texts : Contains(LowerText(value_text), no_text),
        !.lessons_cost =
            IF /\ \/ Contains(LowerText(value_text), <<"charge">>)
                  \/ Contains(LowerText(value_text), <<"cost">>)
               /\ Len(Split(value_text, <<":">>)) > 1
            THEN Strip(Split(value_text, <<":">>)[2])
            ELSE @]

\* A faulty variant of the dispatch: every rule whose test the label passes is
\* applied, not only the first.
RouteEveryMatch(tf, label, value_text, surfaces) ==
    [tf EXCEPT
        !.total_courts =
            IF /\ \/ Contains(label, <<"number of all ", "tennis ", "court", "s">>)
                  \/ Contains(label, <<"tennis ", "court", "s", " total">>)
               /\ DigitsToInt(value_text) # None
            THEN DigitsToInt(value_text)[1] ELSE @,
        !.lighted_courts =
            IF /\ Contains(label, <<"lighted">>) /\ Contains(label, <<"court">>)
               /\ DigitsToInt(value_text) # None
            THEN DigitsToInt(value_text)[1] ELSE @,
        !.opening_hours = IF Contains(label, <<"opening hours">>) THEN value_text ELSE @,
        !.court_cost =
            IF Contains(label, <<"cost">>) /\ Contains(label, <<"court">>)
            THEN value_text ELSE @,
        !.lessons_available =
            IF Contains(label, <<"tennis ", "lessons">>)
            THEN ~\E no_text \in no_texts : Contains(LowerText(value_text), no_text)
            ELSE @]

\* A faulty variant of the dispatch: the lighted-courts test comes first.
RouteLightedFirst(tf, label, value_text, surfaces) ==
    IF Contains(label, <<"lighted">>) /\ Contains(label, <<"court">>)
    THEN [tf EXCEPT !.lighted_courts =
             IF DigitsToInt(value_text) # None THEN DigitsToInt(value_text)[1] ELSE @]
    ELSE IF \/ Contains(label, <<"number of all ", "tennis ", "court", "s">>)
            \/ Contains(label, <<"tennis ", "court", "s", " total">>)
    THEN [tf EXCEPT !.total_courts =
             IF DigitsToInt(value_text) # None THEN DigitsToInt(value_text)[1] ELSE @]
    ELSE tf

\* A faulty variant of the dispatch: a rule for labels about equipment comes
\* before the others.
RouteEquipment(tf, label, value_text, surfaces) ==
    IF Contains(label, <<"equipment">>)
    THEN [tf EXCEPT !.equipment_rental = TRUE, !.equipment_cost = value_text]
    ELSE IF \/ Contains(label, <<"number of all ", "tennis ", "court", "s">>)
            \/ Contains(label, <<"tennis ", "court", "s", " total">>)
    THEN [tf EXCEPT !.total_courts =
             IF DigitsToInt(value_text) # None THEN DigitsToInt(value_text)[1] ELSE @]
    ELSE IF Contains(label, <<"lighted">>) /\ Contains(label, <<"court">>)
    THEN [tf EXCEPT !.lighted_courts =
             IF DigitsToInt(value_text) # None THEN DigitsToInt(value_text)[1] ELSE @]
    ELSE IF Contains(label, <<"terrain">>) \/ Contains(label, <<"surface">>)
    THEN AddSurfaces(tf, surfaces)
    ELSE IF Contains(label, <<"opening hours">>)
    THEN [tf EXCEPT !.opening_hours = value_text]
    ELSE IF Contains(label, <<"cost">>) /\ Contains(label, <<"court">>)
    THEN [tf EXCEPT !.court_cost = value_text]
    ELSE IF Contains(label, <<"tennis ", "lessons">>)
    THEN Lessons(tf, value_text)
    ELSE tf

\* lines 229-282: the dispatch on the lowered label, first match wins
Route(tf, label, value_text, surfaces) ==
    IF \/ Contains(label, <<"number of all ", "tennis ", "court", "s">>)
       \/ Contains(label, <<"tennis ", "court", "s", " total">>)
    THEN [tf EXCEPT !.total_courts =
             IF DigitsToInt(value_text) # None THEN DigitsToInt(value_text)[1] ELSE @]
    ELSE IF Contains(label, <<"lighted">>) /\ Contains(label, <<"court">>)
    THEN [tf EXCEPT !.lighted_courts =
             IF DigitsToInt(value_text) # None THEN DigitsToInt(value_text)[1] ELSE @]
    ELSE IF Contains(label, <<"terrain">>) \/ Contains(label, <<"surface">>)
    THEN AddSurfaces(tf, surfaces)
    ELSE IF Contains(label, <<"opening hours">>)
    THEN [tf EXCEPT !.opening_hours = value_text]
    ELSE IF Contains(label, <<"cost">>) /\ Contains(label, <<"court">>)
    THEN [tf EXCEPT !.court_cost = value_text]
    ELSE IF Contains(label, <<"tennis ", "lessons">>)
    THEN Lessons(tf, value_text)
    ELSE tf

\* lines 217-286: the rows in order; a row with fewer than two spans, or one
\* whose reading raises, is passed over
RECURSIVE ProcessRows(_, _)
ProcessRows(tf, rows) ==
    IF rows = <<>> THEN tf
    ELSE ProcessRows(
             IF Head(rows).spans_ok
             THEN Route(tf, LowerText(Strip(Head(rows).label)), Strip(Head(rows).value),
                        Head(rows).surfaces)
             ELSE tf,
             Tail(rows))

\* lines 189-286.  The clicks on the "show more" and expand controls (lines
\* 194-213) change nothing the extraction reads beyond what the rows hold.
ExtractFacilities(data, f) ==
    IF ~f.panel.present THEN data
    ELSE [data EXCEPT !.tennis_facilities = ProcessRows(@, f.panel.rows)]

\* lines 57-293: the record, or None when an exception reaches the outer
\* handler.
ExtractHotelData(f, now) ==
    IF f.dom_raises \/ RatingRaises(f) THEN None
    ELSE Some(ExtractFacilities(ExtractPrice(ExtractRating(ExtractStars(ExtractLocation(
                  ExtractName(InitialHotelData(now), f), f), f), f), f), f))


\* --------------------------------------------------------------- the disk
\* File names are chunked at "_": tennis_hotels_checkpoint_page_2.json is
\* <<"tennis", "hotels", "checkpoint", "page", "2", ".json">>.
LatestFile == <<"tennis", "hotels", ".json">>
CheckpointFile(k) == <<"tennis", "hotels", "checkpoint", "page", DigitChunk(k), ".json">>
CountryCheckpointFile(country, k) ==
    <<"tennis", "hotels", Lower(country), "checkpoint", "page", DigitChunk(k), ".json">>
CountryFile(country) == <<"tennis", "hotels", Lower(country), ".json">>
CombinedFile == <<"tennis", "hotels", "europe", ".json">>

Countries == {european_countries[i] : i \in 1..Len(european_countries)}

FileNames ==
    {LatestFile, CombinedFile}
        \cup {CheckpointFile(k) : k \in 1..(MaxPages + 1)}
        \cup {CountryFile(c) : c \in Countries}
        \cup {CountryCheckpointFile(c, k) : c \in Countries, k \in 1..(MaxPages + 1)}

\* A file: not there, a JSON document, or what a failed dump left of one.
Absent == [state |-> "absent", data |-> <<>>]
Corrupt == [state |-> "corrupt", data |-> <<>>]
Json(data) == [state |-> "json", data |-> data]

WriteOutcomes == {"ok", "open_fails", "dump_fails"}

\* with open(name, 'w') as f: json.dump(data, f)
WriteJson(d, name, data, outcome) ==
    CASE outcome = "ok" -> [d EXCEPT ![name] = Json(data)]
      [] outcome = "open_fails" -> d
      [] outcome = "dump_fails" -> [d EXCEPT ![name] = Corrupt]

\* The outcomes a write may have while the model's fault budget lasts.
Outcomes(n) == IF n < MaxFaults THEN WriteOutcomes ELSE {"ok"}
Cost(outcome) == IF outcome = "ok" THEN 0 ELSE 1

\* ------------------------------------------------------------- random_delay
\* lines 28-33: the configured ranges, by the key of delay_config (min_delay
\* and max_delay make one range)
DelayRanges == {"min_max_delay", "page_load_delay", "hotel_process_delay"}
NoDelays == [range \in DelayRanges |-> 0]

\* lines 51-55, called n times with the bounds of one range
RandomDelay(done, range, n) == [done EXCEPT ![range] = @ + n]

\* ---------------------------------------------------------- get_total_pages
NonNumericTitle == <<"Next">>
NoTitle == <<>>
PageTitle(n) == <<DigitChunk(n)>>
Titles == {NonNumericTitle} \cup {PageTitle(n) : n \in 1..MaxPages}

\* The pagination a first page may show: no link, one link (with or without
\* a title), or two links.
PaginationLinks ==
    {<<>>} \cup {<<t>> : t \in Titles \cup {NoTitle}}
           \cup {<<t, u>> : t \in Titles, u \in Titles}

RECURSIVE MaxOf(_)
MaxOf(ns) ==
    IF Len(ns) = 1 THEN ns[1]
    ELSE LET m == MaxOf(Tail(ns)) IN IF ns[1] >= m THEN ns[1] ELSE m

\* lines 295-314
GetTotalPages(page_links, query_raises) ==
    IF query_raises THEN 1
    ELSE IF page_links = <<>> THEN 1
    ELSE LET numeric == SelectSeq(page_links, LAMBDA title : title # <<>> /\ IsDigitText(title))
             page_numbers == [i \in 1..Len(numeric) |-> DecimalValue(numeric[i])]
         IN  IF page_numbers # <<>> THEN MaxOf(page_numbers) ELSE 1


\* ------------------------------------------------------------ the listings
GoodFragment ==
    [name |-> Elem(<<"Grand">>),
     location |-> Elem(<<"Hotel in", " ", "Rome", ",", "\n", "Italy">>),
     stars |-> 1,
     rating_score |-> Elem(<<"8", ".", "5">>),
     rating_text |-> Elem(<<"Good">>),
     price_box |-> [present |-> TRUE,
                    amount |-> Elem(<<"pound", "1", ",", "2", "0", "0">>),
                    provider |-> Elem(<<"provider_logos", "/", "booking", ".png">>),
                    room_type |-> Elem(<<"Double">>),
                    cancellation |-> NoElem],
     panel |-> NoPanel,
     dom_raises |-> FALSE]

\* A listing whose score element reads "N/A".
UnratedFragment == [GoodFragment EXCEPT !.name = Elem(<<"Plaza">>),
                                        !.rating_score = Elem(<<"N/A">>)]

\* A listing without a score element.
PlainFragment == [GoodFragment EXCEPT !.name = Elem(<<"Plaza">>),
                                      !.rating_score = NoElem,
                                      !.price_box.present = FALSE]

WalkFragments == {GoodFragment, UnratedFragment}

\* The listings a page may hold: lo to MaxListings fragments.
ListingSeqs(lo) == UNION {[1..n -> WalkFragments] : n \in lo..MaxListings}

\* The loop over hotel_elements (lines 413-425, 516-521): the records of the
\* listings that extract; the i-th listing reads the clock at now + i.
RECURSIVE ExtractListings(_, _)
ExtractListings(frs, now) ==
    IF frs = <<>> THEN <<>>
    ELSE LET got == ExtractHotelData(Head(frs), now + 1)
             rest == ExtractListings(Tail(frs), now + 1)
         IN  IF got # None THEN got \o rest ELSE rest

\* lines 419-422
TagPage(hd, page) == [page_number |-> page] @@ hd

\* lines 518-521
TagCountryPage(hd, country, page) ==
    [page_number |-> page] @@ [hd EXCEPT !.source_country = country]

\* page_hotels_data of scrape_hotels
PageHotelsData(frs, now, page) ==
    LET got == ExtractListings(frs, now)
    IN  [i \in 1..Len(got) |-> TagPage(got[i], page)]

\* page_hotels of scrape_all_countries
PageHotels(frs, now, country, page) ==
    LET got == ExtractListings(frs, now)
    IN  [i \in 1..Len(got) |-> TagCountryPage(got[i], country, page)]


\* ---------------------------------------------------------- save_checkpoint
\* A faulty variant of save_checkpoint: only the records of the page are written.
SaveCheckpointPageOnly(d, data, page, o1, o2) ==
    LET page_data == SelectSeq(data, LAMBDA hd : hd.page_number = page)
        d1 == WriteJson(d, CheckpointFile(page), page_data, o1)
    IN  IF o1 = "ok" THEN WriteJson(d1, LatestFile, page_data, o2) ELSE d1

\* lines 347-361: the page-numbered file, then the latest file; a failure of
\* the first write skips the second.
SaveCheckpoint(d, data, page, o1, o2) ==
    LET d1 == WriteJson(d, CheckpointFile(page), data, o1)
    IN  IF o1 = "ok" THEN WriteJson(d1, LatestFile, data, o2) ELSE d1

CheckpointOutcomes(n) ==
    {o \in Outcomes(n) \X Outcomes(n) : o[1] # "ok" => o[2] = "ok"}
CheckpointWritten(o) == o[1] = "ok" /\ o[2] = "ok"
CheckpointCost(o) == IF CheckpointWritten(o) THEN 0 ELSE 1

\* ------------------------------------------------------------ scrape_hotels
sweepOnly == <<country_idx, country_hotels, all_countries_data, sweepLog>>
walkOnly == <<all_hotels_data, ckpt_ok>>

\* A faulty variant of the last-page test: one page too many.
ReachedLastPageOffByOne(current, total) == current > total

\* line 434
ReachedLastPage(current, total) == current >= total

\* lines 363-375: the call, up to the page loop
CallScrapeHotels ==
    /\ pc = "idle"
    /\ all_hotels_data' = <<>>
    /\ current_page' = 1
    /\ \/ pc' = "sh_goto" /\ navOk' = navOk
       \/ pc' = "sh_except_nopage" /\ navOk' = FALSE
    /\ UNCHANGED <<delays, total_pages, disk, clock, pagination, requested, extracted, faults,
                   ckpt_ok, extractVars, storeVars, geoVars, dashVars>>
    /\ UNCHANGED sweepOnly

\* lines 377-395: the delay, the page request, the delay after the load, and
\* on the first page the page count
ShGoto ==
    /\ pc = "sh_goto"
    /\ requested' = Append(requested, current_page)
    /\ \/ \* page.goto raises
          /\ pc' = "sh_except"
          /\ navOk' = FALSE
          /\ delays' = RandomDelay(delays, "min_max_delay", 1)
          /\ UNCHANGED <<total_pages, pagination>>
       \/ /\ current_page = 1
          /\ \E links \in PaginationLinks, query_raises \in BOOLEAN :
                /\ pagination' = links
                /\ total_pages' = GetTotalPages(links, query_raises)
                /\ navOk' = (navOk /\ ~query_raises)
          /\ delays' = RandomDelay(RandomDelay(delays, "min_max_delay", 1),
                                   "page_load_delay", 1)
          /\ pc' = "sh_wait"
       \/ /\ current_page > 1
          /\ delays' = RandomDelay(RandomDelay(delays, "min_max_delay", 1),
                                   "page_load_delay", 1)
          /\ pc' = "sh_wait"
          /\ UNCHANGED <<total_pages, pagination, navOk>>
    /\ UNCHANGED <<current_page, all_hotels_data, disk, clock, extracted, faults,
                   ckpt_ok, extractVars, storeVars, geoVars, dashVars>>
    /\ UNCHANGED sweepOnly

\* lines 397-404: the wait for the listing container
ShWait ==
    /\ pc = "sh_wait"
    /\ \/ pc' = "sh_extract" /\ navOk' = navOk
       \/ pc' = "sh_close" /\ navOk' = FALSE
    /\ UNCHANGED <<delays, current_page, total_pages, all_hotels_data, disk, clock, pagination,
                   requested, extracted, faults, ckpt_ok, extractVars, storeVars, geoVars, dashVars>>
    /\ UNCHANGED sweepOnly

\* lines 406-428: the listings of the page, added to the accumulated list
ShExtract ==
    /\ pc = "sh_extract"
    /\ \/ \* query_selector_all raises
          /\ pc' = "sh_except"
          /\ navOk' = FALSE
          /\ UNCHANGED <<all_hotels_data, clock, extracted, delays>>
       \/ \E frs \in ListingSeqs(1) :
             /\ all_hotels_data' =
                    all_hotels_data \o PageHotelsData(frs, clock, current_page)
             /\ delays' = RandomDelay(delays, "hotel_process_delay", Len(frs))
             /\ clock' = clock + Len(frs)
             /\ extracted' = Append(extracted, current_page)
             /\ pc' = "sh_checkpoint"
             /\ navOk' = navOk
    /\ UNCHANGED <<current_page, total_pages, disk, pagination, requested, faults,
                   ckpt_ok, extractVars, storeVars, geoVars, dashVars>>
    /\ UNCHANGED sweepOnly

\* A faulty variant of the step after save_checkpoint: a checkpoint that was
\* not written raises into the handler of the walk.
AfterCheckpointRaising(current, total, written) ==
    IF ~written THEN "sh_except"
    ELSE IF ReachedLastPage(current, total) THEN "sh_close" ELSE "sh_navigate"

\* lines 431-436: save_checkpoint catches what its writes raise (line 360), so
\* the last-page test follows whether or not the files were written
AfterCheckpoint(current, total, written) ==
    IF ReachedLastPage(current, total) THEN "sh_close" ELSE "sh_navigate"

\* lines 430-436: the checkpoint of the page, then the last-page test
ShCheckpoint ==
    /\ pc = "sh_checkpoint"
    /\ \E o \in CheckpointOutcomes(faults) :
          /\ disk' = SaveCheckpoint(disk, all_hotels_data, current_page, o[1], o[2])
          /\ ckpt_ok' = CheckpointWritten(o)
          /\ faults' = faults + CheckpointCost(o)
          /\ pc' = AfterCheckpoint(current_page, total_pages, CheckpointWritten(o))
    /\ UNCHANGED <<delays, current_page, total_pages, all_hotels_data, clock, pagination,
                   requested, extracted, navOk, extractVars, storeVars, geoVars, dashVars>>
    /\ UNCHANGED sweepOnly

\* A faulty variant of the page step: the cursor stays where it is.
SamePageNumber(current) == current

\* line 440: current_page += 1
NextPageNumber(current) == current + 1

\* lines 316-345, 438-445: navigate_to_next_page and what the loop does with it
ShNavigate ==
    /\ pc = "sh_navigate"
    /\ \/ \* the control of page current + 1 is clicked and the address confirms it
          /\ requested' = Append(requested, current_page + 1)
          /\ current_page' = NextPageNumber(current_page)
          /\ delays' = RandomDelay(delays, "page_load_delay", 1)
          /\ pc' = "sh_goto"
          /\ navOk' = navOk
       \/ \* the control is absent
          /\ pc' = "sh_close"
          /\ navOk' = FALSE
          /\ UNCHANGED <<requested, current_page, delays>>
       \/ \* the click is made, and the load raises or the address does not confirm
          /\ requested' = Append(requested, current_page + 1)
          /\ pc' = "sh_close"
          /\ navOk' = FALSE
          /\ UNCHANGED <<current_page, delays>>
    /\ UNCHANGED <<total_pages, all_hotels_data, disk, clock, pagination, extracted,
                   faults, ckpt_ok, extractVars, storeVars, geoVars, dashVars>>
    /\ UNCHANGED sweepOnly

\* lines 447-448
ShClose ==
    /\ pc = "sh_close"
    /\ \/ pc' = "sh_return" /\ navOk' = navOk
       \/ pc' = "sh_except" /\ navOk' = FALSE
    /\ UNCHANGED <<delays, current_page, total_pages, all_hotels_data, disk, clock, pagination,
                   requested, extracted, faults, ckpt_ok, extractVars, storeVars, geoVars, dashVars>>
    /\ UNCHANGED sweepOnly

\* lines 458-460: what was collected is saved under the current page number
ErrorCheckpoint ==
    IF all_hotels_data # <<>>
    THEN \E o \in CheckpointOutcomes(faults) :
            /\ disk' = SaveCheckpoint(disk, all_hotels_data, current_page, o[1], o[2])
            /\ ckpt_ok' = CheckpointWritten(o)
            /\ faults' = faults + CheckpointCost(o)
    ELSE UNCHANGED <<disk, ckpt_ok, faults>>

\* lines 450-463: the handler of an exception raised while the page exists
ShExcept ==
    /\ pc = "sh_except"
    /\ \/ \* error_page.html is written
          /\ ErrorCheckpoint
          /\ pc' = "sh_return"
       \/ \* page.content() or the write of error_page.html raises in the handler
          /\ pc' = "sh_raised"
          /\ UNCHANGED <<disk, ckpt_ok, faults>>
    /\ UNCHANGED <<delays, current_page, total_pages, all_hotels_data, clock, pagination,
                   requested, extracted, navOk, extractVars, storeVars, geoVars, dashVars>>
    /\ UNCHANGED sweepOnly

\* lines 450-463: the handler of an exception raised before the page exists
ShExceptNoPage ==
    /\ pc = "sh_except_nopage"
    /\ ErrorCheckpoint
    /\ pc' = "sh_return"
    /\ UNCHANGED <<delays, current_page, total_pages, all_hotels_data, clock, pagination,
                   requested, extracted, navOk, extractVars, storeVars, geoVars, dashVars>>
    /\ UNCHANGED sweepOnly

ScrapeHotels ==
    \/ CallScrapeHotels
    \/ ShGoto
    \/ ShWait
    \/ ShExtract
    \/ ShCheckpoint
    \/ ShNavigate
    \/ ShClose
    \/ ShExcept
    \/ ShExceptNoPage


\* ----------------------------------------------------- scrape_all_countries
Country == european_countries[country_idx]

\* A faulty variant of the handler: the failure ends the sweep (break).
AbortAfterFailedCountry(idx) == Len(european_countries) + 1

\* lines 533-535: except ... continue
AfterFailedCountry(idx) == idx + 1

\* line 506: range(1, total_pages + 1) has a page after current
HasNextPage(current, total) == current + 1 <= total

\* How the sweep of one country ended.
SweepEntry(country, failed, records) ==
    [country |-> country, failed |-> failed, records |-> records]

\* lines 533-535: the handler of a failure anywhere in the country's sweep
FailCountry ==
    /\ sweepLog' = Append(sweepLog, SweepEntry(Country, TRUE, <<>>))
    /\ country_idx' = AfterFailedCountry(country_idx)
    /\ pc' = "sc_country"
    /\ navOk' = FALSE

\* lines 483-485
CallScrapeAllCountries ==
    /\ pc = "idle"
    /\ all_countries_data' = <<>>
    /\ country_idx' = 1
    /\ pc' = "sc_country"
    /\ UNCHANGED <<delays, current_page, total_pages, country_hotels, disk, clock, pagination,
                   requested, extracted, navOk, faults, sweepLog, extractVars, storeVars, geoVars, dashVars>>
    /\ UNCHANGED walkOnly

\* lines 487-503: the browser, the first page and its page count
ScStartCountry ==
    /\ pc = "sc_country"
    /\ country_idx <= Len(european_countries)
    /\ country_hotels' = <<>>
    /\ extracted' = <<>>
    /\ \/ /\ requested' = <<1>>
          /\ \E links \in PaginationLinks, query_raises \in BOOLEAN :
                /\ pagination' = links
                /\ total_pages' = GetTotalPages(links, query_raises)
                /\ navOk' = ~query_raises
          /\ current_page' = 1
          /\ pc' = IF 1 <= total_pages' THEN "sc_page" ELSE "sc_close"
          /\ UNCHANGED <<country_idx, sweepLog>>
       \/ /\ requested' = <<1>>
          /\ pagination' = <<>>
          /\ FailCountry
          /\ UNCHANGED <<current_page, total_pages>>
    /\ UNCHANGED <<delays, all_countries_data, disk, clock, faults, extractVars, storeVars,
                   geoVars, dashVars>>
    /\ UNCHANGED walkOnly

\* lines 506-525: one page of the country
ScPage ==
    /\ pc = "sc_page"
    /\ requested' = Append(requested, current_page)
    /\ \/ \E frs \in ListingSeqs(0), o \in Outcomes(faults) :
             LET page_hotels == PageHotels(frs, clock, Country, current_page)
             IN  /\ disk' = WriteJson(disk, CountryCheckpointFile(Country, current_page),
                                      page_hotels, o)
                 /\ faults' = faults + Cost(o)
                 /\ country_hotels' = country_hotels \o page_hotels
                 /\ clock' = clock + Len(frs)
                 /\ extracted' = Append(extracted, current_page)
                 /\ IF HasNextPage(current_page, total_pages)
                    THEN current_page' = current_page + 1 /\ pc' = "sc_page"
                    ELSE current_page' = current_page /\ pc' = "sc_close"
                 /\ UNCHANGED <<country_idx, sweepLog, navOk>>
       \/ /\ FailCountry
          /\ UNCHANGED <<disk, faults, country_hotels, clock, extracted, current_page>>
    /\ UNCHANGED <<delays, total_pages, all_countries_data, pagination, extractVars, storeVars,
                   geoVars, dashVars>>
    /\ UNCHANGED walkOnly

\* A faulty variant of the extend: the country's records are put in front.
ExtendInFront(all_data, more) == more \o all_data

\* line 531: all_countries_data.extend(country_hotels)
Extend(all_data, more) == all_data \o more

\* lines 527-531: the browser is closed and the country's records are saved
ScClose ==
    /\ pc = "sc_close"
    /\ \/ \E o \in Outcomes(faults) :
             /\ disk' = WriteJson(disk, CountryFile(Country), country_hotels, o)
             /\ faults' = faults + Cost(o)
             /\ all_countries_data' = Extend(all_countries_data, country_hotels)
             /\ sweepLog' = Append(sweepLog, SweepEntry(Country, FALSE, country_hotels))
             /\ country_idx' = country_idx + 1
             /\ pc' = "sc_country"
             /\ navOk' = navOk
       \/ /\ FailCountry
          /\ UNCHANGED <<disk, faults, all_countries_data>>
    /\ UNCHANGED <<delays, current_page, total_pages, country_hotels, clock, pagination,
                   requested, extracted, extractVars, storeVars, geoVars, dashVars>>
    /\ UNCHANGED walkOnly

\* lines 537-538: the combined file
ScFinish ==
    /\ pc = "sc_country"
    /\ country_idx > Len(european_countries)
    /\ \E o \in Outcomes(faults) :
          /\ disk' = WriteJson(disk, CombinedFile, all_countries_data, o)
          /\ faults' = faults + Cost(o)
    /\ pc' = "sc_done"
    /\ UNCHANGED <<delays, current_page, total_pages, country_idx, country_hotels,
                   all_countries_data, clock, pagination, requested, extracted, navOk,
                   sweepLog, extractVars, storeVars, geoVars, dashVars>>
    /\ UNCHANGED walkOnly

ScrapeAllCountries ==
    \/ CallScrapeAllCountries
    \/ ScStartCountry
    \/ ScPage
    \/ ScClose
    \/ ScFinish

\* ------------------------------------------------- the scraper specification
InitScraperData ==
    /\ current_page = 1
    /\ total_pages = 1
    /\ all_hotels_data = <<>>
    /\ country_idx = 1
    /\ country_hotels = <<>>
    /\ all_countries_data = <<>>
    /\ disk = [n \in FileNames |-> Absent]
    /\ clock = 0
    /\ pagination = <<>>
    /\ requested = <<>>
    /\ extracted = <<>>
    /\ navOk = TRUE
    /\ faults = 0
    /\ ckpt_ok = FALSE
    /\ sweepLog = <<>>
    /\ delays = NoDelays

InitScraper == pc = "idle" /\ InitScraperData

InitExtractIdle ==
    /\ fragment = GoodFragment
    /\ hotel_data = None


\* ------------------------------------------------------------ TennisHotelsDB
\* JSON null and SQL NULL, where the alternative is a text.
Null == <<"<null>">>

\* dict.get(key, default)
Get(d, key, default) == IF key \in DOMAIN d THEN d[key] ELSE default

\* lines 33-40, 42-109: the store after initialize_database
EmptyDB ==
    [hotels |-> {}, prices |-> {}, tennis_facilities |-> {}, court_surfaces |-> {},
     geocoding |-> {},
     seq |-> [hotels |-> 0, prices |-> 0, tennis_facilities |-> 0, court_surfaces |-> 0,
              geocoding |-> 0]]

\* A faulty variant of initialize_database: the database file is not deleted.
KeepDatabase(store) == store

\* lines 29-40: delete_database() removes the file whatever it holds, and
\* setup_database() creates the tables anew
InitializeDatabase(store) == EmptyDB

\* UNIQUE(name, location, scrape_timestamp): NULLs never conflict (the records
\* of the model all carry a timestamp)
Conflicts(row, name, location, ts) ==
    /\ row.name = name /\ row.location = location /\ row.scrape_timestamp = ts
    /\ name # Null /\ location # Null

\* lines 118-135: INSERT OR REPLACE INTO hotels; the row id is cursor.lastrowid
InsertHotelRow(store, hd, now) ==
    LET name == hd.name
        location == Get(hd, "location", <<>>)
        ts == Get(hd, "scrape_timestamp", now)
        id == store.seq.hotels + 1
        row == [id |-> id,
                name |-> name,
                location |-> location,
                country |-> Get(hd, "country", <<>>),
                source_country |-> Get(hd, "source_country", ""),
                star_rating |-> Get(hd, "star_rating", 0),
                rating_score |-> Get(hd, "rating_score", None),
                rating_text |-> Get(hd, "rating_text", <<>>),
                page_number |-> Get(hd, "page_number", 0),
                scrape_timestamp |-> ts]
    IN  [store EXCEPT !.hotels = {r \in @ : ~Conflicts(r, name, location, ts)} \cup {row},
                      !.seq.hotels = id]

\* hotel_data.get('price') and hotel_data.get('tennis_facilities') are truthy
HasPrice(hd) == "price" \in DOMAIN hd
HasFacilities(hd) == "tennis_facilities" \in DOMAIN hd

\* lines 137-150
InsertPriceRow(store, hd, hotel_id) ==
    IF ~HasPrice(hd) THEN store
    ELSE LET id == store.seq.prices + 1
             row == [id |-> id,
                     hotel_id |-> hotel_id,
                     amount |-> Get(hd.price, "amount", None),
                     currency |-> Get(hd.price, "currency", ""),
                     provider |-> Get(hd.price, "provider", Null),
                     room_type |-> Get(hd.price, "room_type", Null),
                     cancellation_policy |-> Get(hd.price, "cancellation_policy", Null)]
         IN  [store EXCEPT !.prices = @ \cup {row}, !.seq.prices = id]

\* lines 178-184: one row per item of surface_counts
RECURSIVE InsertSurfaceRows(_, _, _)
InsertSurfaceRows(store, items, facility_id) ==
    IF items = <<>> THEN store
    ELSE LET id == store.seq.court_surfaces + 1
             row == [id |-> id,
                     facility_id |-> facility_id,
                     surface_type |-> items[1].surface,
                     court_count |-> items[1].count]
         IN  InsertSurfaceRows(
                 [store EXCEPT !.court_surfaces = @ \cup {row}, !.seq.court_surfaces = id],
                 Tail(items), facility_id)

\* lines 152-184
InsertFacilityRows(store, hd, hotel_id) ==
    IF ~HasFacilities(hd) THEN store
    ELSE LET tf == hd.tennis_facilities
             id == store.seq.tennis_facilities + 1
             row == [id |-> id,
                     hotel_id |-> hotel_id,
                     total_courts |-> Get(tf, "total_courts", 0),
                     lighted_courts |-> Get(tf, "lighted_courts", 0),
                     opening_hours |-> Get(tf, "opening_hours", <<>>),
                     court_cost |-> Get(tf, "court_cost", <<>>),
                     lessons_available |-> Get(tf, "lessons_available", FALSE),
                     lessons_cost |-> Get(tf, "lessons_cost", <<>>),
                     equipment_rental |-> Get(tf, "equipment_rental", FALSE),
                     equipment_cost |-> Get(tf, "equipment_cost", <<>>),
                     tennis_camps |-> Get(tf, "tennis_camps", FALSE),
                     tournaments |-> Get(tf, "tournaments", FALSE),
                     tennis_shop |-> Get(tf, "tennis_shop", FALSE)]
             with == [store EXCEPT !.tennis_facilities = @ \cup {row},
                                   !.seq.tennis_facilities = id]
         IN  IF "surface_counts" \in DOMAIN tf
             THEN InsertSurfaceRows(with, tf.surface_counts, id)
             ELSE with

\* A value of a JSON file that is an array where a number or an object is
\* expected: sqlite3 cannot bind it as a parameter, and it has no items().
JsonArray == [json |-> "array"]

\* lines 139-150: the parameters of the prices insert bind
PriceBinds(hd) ==
    ~(/\ "amount" \in DOMAIN hd.price
      /\ hd.price.amount # None
      /\ "json" \in DOMAIN hd.price.amount[1])

\* line 179: surface_counts has items()
SurfaceCountsIsObject(hd) ==
    "surface_counts" \in DOMAIN hd.tennis_facilities =>
        \A i \in 1..Len(hd.tennis_facilities.surface_counts) :
            "json" \notin DOMAIN hd.tennis_facilities.surface_counts[i]

\* A faulty variant of insert_hotel_data: the handler does not roll back, and
\* leaving the connection block commits what was executed before the failure.
InsertHotelDataNoRollback(store, hd, now) ==
    IF "name" \notin DOMAIN hd
    THEN [db |-> store, result |-> "raises"]
    ELSE IF hd.name = Null
    THEN [db |-> store, result |-> "false"]
    ELSE IF HasPrice(hd) /\ ~PriceBinds(hd)
    THEN [db |-> InsertHotelRow(store, hd, now), result |-> "false"]
    ELSE IF HasFacilities(hd) /\ ~SurfaceCountsIsObject(hd)
    THEN [db |-> InsertPriceRow(InsertHotelRow(store, hd, now), hd, store.seq.hotels + 1),
          result |-> "false"]
    ELSE [db |-> InsertFacilityRows(
                     InsertPriceRow(InsertHotelRow(store, hd, now), hd, store.seq.hotels + 1),
                     hd, store.seq.hotels + 1),
          result |-> "true"]

\* lines 111-192.  result is "true" or "false" as returned, or "raises" when
\* the exception handler itself raises (line 190 reads hotel_data['name']).
\* A statement that fails after the hotels insert is followed by the rollback
\* of line 191, which also undoes the replacement of an older row.
InsertHotelData(store, hd, now) ==
    IF "name" \notin DOMAIN hd
    THEN [db |-> store, result |-> "raises"]
    ELSE IF hd.name = Null
    THEN [db |-> store, result |-> "false"]
    ELSE IF HasPrice(hd) /\ ~PriceBinds(hd)
    THEN [db |-> store, result |-> "false"]
    ELSE IF HasFacilities(hd) /\ ~SurfaceCountsIsObject(hd)
    THEN [db |-> store, result |-> "false"]
    ELSE LET s1 == InsertHotelRow(store, hd, now)
             hotel_id == s1.seq.hotels
             s2 == InsertPriceRow(s1, hd, hotel_id)
             s3 == InsertFacilityRows(s2, hd, hotel_id)
         IN  [db |-> s3, result |-> "true"]

\* lines 200-206: the loop over the records of a file.  An exception leaving
\* insert_hotel_data ends the loop; the rows committed before it stay.
RECURSIVE InsertAll(_, _, _, _)
InsertAll(store, hotels, now, count) ==
    IF hotels = <<>> THEN [db |-> store, successful_inserts |-> count, raised |-> FALSE]
    ELSE LET r == InsertHotelData(store, Head(hotels), now)
         IN  IF r.result = "raises"
             THEN [db |-> r.db, successful_inserts |-> count, raised |-> TRUE]
             ELSE InsertAll(r.db, Tail(hotels), now + 1,
                            IF r.result = "true" THEN count + 1 ELSE count)

\* lines 194-210: [db, returned]
ProcessJsonFile(store, content, now) ==
    IF content.state # "json" THEN [db |-> store, returned |-> 0]
    ELSE LET r == InsertAll(store, content.data, now, 0)
         IN  [db |-> r.db, returned |-> IF r.raised THEN 0 ELSE r.successful_inserts]

\* line 214: f.endswith('.json')
EndsWithJson(name) == name[Len(name)] = ".json"
\* line 218: 'checkpoint' not in file
IsCheckpointName(name) == \E i \in 1..Len(name) : name[i] = "checkpoint"

\* The files of the directory that consolidate_all_files processes.
Consolidated(d) ==
    {n \in DOMAIN d : d[n].state # "absent" /\ EndsWithJson(n) /\ ~IsCheckpointName(n)}

\* The row counts of the four tables.
RowCounts(store) ==
    [hotels |-> Cardinality(store.hotels),
     prices |-> Cardinality(store.prices),
     tennis_facilities |-> Cardinality(store.tennis_facilities),
     court_surfaces |-> Cardinality(store.court_surfaces)]

\* What one process_json_file call did.
Pass(file, r) == [file |-> file, returned |-> r.returned, counts |-> RowCounts(r.db)]

\* lines 212-223, the files taken in the order os.listdir() gave:
\* [db, returned, passes]
RECURSIVE ConsolidateAllFiles(_, _, _, _)
ConsolidateAllFiles(store, d, order, now) ==
    IF order = <<>> THEN [db |-> store, returned |-> 0, passes |-> <<>>]
    ELSE LET file == Head(order)
             one == ProcessJsonFile(store, d[file], now)
             rest == ConsolidateAllFiles(one.db, d, Tail(order), now + Len(d[file].data))
         IN  [db |-> rest.db,
              returned |-> one.returned + rest.returned,
              passes |-> <<Pass(file, one)>> \o rest.passes]

\* ---------------------------------------------------------- GeocodingUpdater
\* str.lstrip(chars)
RECURSIVE LStripChars(_, _)
LStripChars(s, chars) ==
    IF s # <<>> /\ Head(s) \in chars THEN LStripChars(Tail(s), chars) ELSE s

\* line 69: f"{location}, {country}".strip(', ')
CacheKey(location, country) ==
    LStripChars(RStripChars(location \o <<",", " ">> \o country, {",", " "}), {",", " "})

\* What the lookup service answers to one request.
ApiError == [kind |-> "error", display_name |-> <<>>]
ApiEmpty == [kind |-> "empty", display_name |-> <<>>]
ApiResult(display_name) == [kind |-> "result", display_name |-> display_name]
ApiAnswers ==
    {ApiError, ApiEmpty, ApiResult(<<"Roma", ", ", "Lazio", ", ", "Italia">>), ApiResult(<<>>)}

\* lines 97-102 (the coordinates and the country code are the same in every answer)
GeocodedData(answer) ==
    [lat |-> 1, lon |-> 1, country_code |-> "it", formatted_address |-> answer.display_name]

\* lines 51-58
SaveCache(file, cache_now, outcome) ==
    CASE outcome = "ok" -> [state |-> "json", data |-> cache_now]
      [] outcome = "open_fails" -> file
      [] outcome = "dump_fails" -> [state |-> "corrupt", data |-> <<>>]

\* A faulty variant of geocode_location: the result is returned and not cached.
GeocodeLocationUncached(g, location, country, answer, outcome) ==
    IF location = <<>>
    THEN [g EXCEPT !.returned = None, !.how = "refused"]
    ELSE IF CacheKey(location, country) \in DOMAIN g.cache
    THEN [g EXCEPT !.returned = Some(g.cache[CacheKey(location, country)]), !.how = "cached"]
    ELSE IF answer.kind = "result"
    THEN [g EXCEPT !.returned = Some(GeocodedData(answer)), !.how = "result"]
    ELSE [g EXCEPT !.returned = None, !.how = answer.kind]

\* lines 60-116.  g holds the updater's cache and cache file; the result adds
\* what the call returned (None or the data) and how it got it.
GeocodeLocation(g, location, country, answer, outcome) ==
    LET cache_key == CacheKey(location, country)
    IN  IF location = <<>>
        THEN [g EXCEPT !.returned = None, !.how = "refused"]
        ELSE IF cache_key \in DOMAIN g.cache
        THEN [g EXCEPT !.returned = Some(g.cache[cache_key]), !.how = "cached"]
        ELSE IF answer.kind = "result"
        THEN LET cached == (cache_key :> GeocodedData(answer)) @@ g.cache
             IN  [g EXCEPT !.cache = cached,
                           !.cache_file = SaveCache(@, cached, outcome),
                           !.faults = @ + Cost(outcome),
                           !.returned = Some(GeocodedData(answer)),
                           !.how = "result"]
        ELSE [g EXCEPT !.returned = None, !.how = answer.kind]

\* lines 153, 211: formatted_address.split(', ')[-1]
CountryName(formatted_address) ==
    LET parts == Split(formatted_address, <<", ">>) IN parts[Len(parts)]

Empty(country) == country = Null \/ country = <<>>

\* lines 140-150: INSERT OR REPLACE INTO geocoding
InsertGeocoding(store, location, geocoded) ==
    LET id == store.seq.geocoding + 1
        row == [id |-> id,
                location_string |-> location,
                latitude |-> geocoded.lat,
                longitude |-> geocoded.lon,
                country_code |-> geocoded.country_code,
                formatted_address |-> geocoded.formatted_address]
    IN  [store EXCEPT !.geocoding = {r \in @ : r.location_string # location} \cup {row},
                      !.seq.geocoding = id]

\* lines 156-160: UPDATE hotels SET country = ? WHERE location = ? AND (country
\* IS NULL OR country = '')
FillCountry(store, location, country_name) ==
    [store EXCEPT !.hotels =
        {IF r.location = location /\ Empty(r.country)
         THEN [r EXCEPT !.country = country_name] ELSE r : r \in @}]

\* lines 214-218: UPDATE hotels SET country = ? WHERE location = ?
SetCountry(store, location, country_name) ==
    [store EXCEPT !.hotels =
        {IF r.location = location THEN [r EXCEPT !.country = country_name] ELSE r : r \in @}]

\* lines 124-132: the (location, country) pairs of hotels without a geocoding row
LocationsToGeocode(store) ==
    {<<h.location, h.country>> : h \in
        {h \in store.hotels :
            /\ h.location # Null
            /\ ~\E r \in store.geocoding : r.location_string = h.location}}


\* A faulty variant of the loop: it ends at the first location without data.
RECURSIVE GeocodeUntilFailure(_, _, _, _)
GeocodeUntilFailure(g, pairs, answers, outcomes) ==
    IF pairs = <<>> THEN g
    ELSE LET g1 == GeocodeLocation(g, pairs[1][1], pairs[1][2], answers[1], outcomes[1])
             g2 == [g1 EXCEPT !.calls[pairs[1]] = Append(@, g1.how)]
         IN  IF g2.returned = None THEN g2
             ELSE GeocodeUntilFailure(
                      [g2 EXCEPT !.db = FillCountry(
                           InsertGeocoding(@, pairs[1][1], g2.returned[1]), pairs[1][1],
                           CountryName(g2.returned[1].formatted_address))],
                      Tail(pairs), Tail(answers), Tail(outcomes))

\* The loop of update_database_geocoding (lines 135-165) over the pairs in the
\* order the query gave them; answers and outcomes are the service's answer and
\* the cache write's outcome for each pair.
RECURSIVE GeocodeAll(_, _, _, _)
GeocodeAll(g, pairs, answers, outcomes) ==
    IF pairs = <<>> THEN g
    ELSE LET location == pairs[1][1]
             country == pairs[1][2]
             g1 == GeocodeLocation(g, location, country, answers[1], outcomes[1])
             g2 == [g1 EXCEPT !.calls[pairs[1]] = Append(@, g1.how)]
             g3 == IF g2.returned = None THEN g2
                   ELSE LET geocoded == g2.returned[1]
                            country_name == CountryName(geocoded.formatted_address)
                        IN  [g2 EXCEPT !.db = FillCountry(
                                InsertGeocoding(@, location, geocoded), location, country_name)]
         IN  GeocodeAll(g3, Tail(pairs), Tail(answers), Tail(outcomes))

\* lines 198-205: hotels without a country that have a geocoding row
LocationsToUpdate(store) ==
    {<<hr[1].location, hr[2].formatted_address>> : hr \in
        {hr \in store.hotels \X store.geocoding :
            hr[1].location = hr[2].location_string /\ Empty(hr[1].country)}}

\* lines 208-223
RECURSIVE UpdateMissingCountries(_, _)
UpdateMissingCountries(store, rows) ==
    IF rows = {} THEN store
    ELSE LET row == CHOOSE r \in rows : TRUE
         IN  UpdateMissingCountries(SetCountry(store, row[1], CountryName(row[2])),
                                    rows \ {row})

\* The orders in which a finite set may be listed.
Orders(S) ==
    {order \in [1..Cardinality(S) -> S] : \A i, j \in 1..Cardinality(S) :
        i # j => order[i] # order[j]}


\* ------------------------------------------------ the extractor specification
MaxStars == 1

NameElems == {NoElem, Elem(<<" ", "Grand", " ">>)}

\* The raw text of a ".hotel_property_type_location" element: the property
\* type, the city, a line break, the country.
LocationParts ==
    [prefix : {<<"Hotel in">>, <<"Villa in">>},
     city : {<<"Rome">>, <<"Rome", ",">>, <<"Grand", " ", "Hotel in", " ", "Park">>},
     country : {<<"Italy">>}]
LocationText(l) == l.prefix \o <<" ">> \o l.city \o <<"\n">> \o l.country
LocationElems == {NoElem, Elem(<<"Rome">>)} \cup {Elem(LocationText(l)) : l \in LocationParts}
ScoreElems == {NoElem, Elem(<<"8", ".", "5">>), Elem(<<"N/A">>), Elem(<<>>)}
RatingTextElems == {NoElem, Elem(<<"Good">>)}
\* The price texts: a currency glyph, then digits; when there are thousands,
\* a separator stands before the last three digits.
PriceParts ==
    {p \in [glyph : {"pound", "dollar", "euro"},
            thousands : {<<>>, <<"1">>},
            rest : {<<"7">>, <<"4", "5", "0">>, <<"0", "0", "0">>}] :
        p.thousands # <<>> => Len(p.rest) = 3}
PriceText(p) ==
    <<p.glyph>> \o (IF p.thousands = <<>> THEN <<>> ELSE p.thousands \o <<",">>) \o p.rest
AmountElems == {NoElem, Elem(<<"POA">>)} \cup {Elem(PriceText(p)) : p \in PriceParts}
ProviderElems == {NoElem, Elem(<<"provider_logos", "/", "booking", ".png">>)}
NoPriceBox ==
    [present |-> FALSE, amount |-> NoElem, provider |-> NoElem, room_type |-> NoElem,
     cancellation |-> NoElem]
PriceBoxes ==
    {NoPriceBox} \cup
    [present : {TRUE}, amount : AmountElems, provider : ProviderElems,
     room_type : {NoElem, Elem(<<"Double">>)}, cancellation : {NoElem}]

Fragments ==
    [name : NameElems, location : LocationElems, stars : 0..MaxStars,
     rating_score : ScoreElems, rating_text : RatingTextElems, price_box : PriceBoxes,
     panel : {NoPanel}, dom_raises : BOOLEAN]

\* Labels of the facilities panel.
PanelLabels ==
    {<<"Number of all ", "tennis ", "court", "s", " total">>,
     <<"Tennis ", "Court", "s", " total">>,
     <<"Lighted", " ", "Court", "s", " ", "Available">>,
     <<"Lighted", " ", "tennis ", "court", "s", " total">>,
     <<"Lighted", " ", "court", " ", "cost">>,
     <<"Court", " ", "Cost">>,
     <<"Tennis ", "Lessons">>,
     <<"Equipment", " ", "rental">>,
     <<"Opening hours">>,
     <<"Parking">>}

\* Values of the facilities panel: counts, with and without digits, and
\* answers about lessons.  "sup2" is the superscript two of "m2".
PanelValues ==
    {<<"6", " ", "courts">>,
     <<"2">>,
     <<"no", "ne">>,
     <<"4", " ", "(", "2", "6", "0", " ", "m", "sup2", ")">>,
     <<"Yes">>,
     <<"No">>,
     <<"greek_no">>,
     <<"Yes", ":", " ", "daily">>,
     <<"Yes", ",", " ", "extra", " ", "charge", ":", " ", "EUR", " ", "2", "0">>,
     <<"Yes", ",", " ", "extra", " ", "charge", ":", " ", "EUR", " ", "2", "0", " ", "(",
       "private", ":", " ", "EUR", " ", "3", "5", ")">>}

\* The rows: every label with every value, a row with one span only, a
\* surface row with two surface elements, and one that names a surface twice.
PanelRows ==
    [spans_ok : {TRUE}, label : PanelLabels, value : PanelValues, surfaces : {<<>>}]
    \cup {[spans_ok |-> FALSE, label |-> <<"Tennis ", "Court", "s", " total">>,
           value |-> <<>>, surfaces |-> <<>>],
          [spans_ok |-> TRUE, label |-> <<"Court", " ", "Surface">>, value |-> <<>>,
           surfaces |-> << <<"Clay", " ", "Number of courts:", " ", "3">>,
                           <<"Hard", " ", "Number of courts:", " ", "sup2">> >>],
          [spans_ok |-> TRUE, label |-> <<"Court", " ", "Surface">>, value |-> <<>>,
           surfaces |-> << <<"Clay", " ", "Number of courts:", " ", "5">>,
                           <<"Grass", " ", "Number of courts:", " ", "1">>,
                           <<"Clay", " ", "Number of courts:", " ", "2">> >>]}

\* The listing with a facilities panel of one or two rows.
PanelFragments ==
    {[GoodFragment EXCEPT !.panel = [present |-> TRUE, rows |-> rows]] :
        rows \in {<<r>> : r \in PanelRows} \cup {<<r1, r2>> : r1, r2 \in PanelRows}}

\* extract_hotel_data(fragment)
Extract ==
    /\ pc = "x_call"
    /\ hotel_data' = ExtractHotelData(fragment, clock + 1)
    /\ clock' = clock + 1
    /\ pc' = "x_returned"
    /\ UNCHANGED <<delays, current_page, total_pages, all_hotels_data, country_idx, country_hotels,
                   all_countries_data, disk, pagination, requested, extracted, navOk,
                   faults, ckpt_ok, sweepLog, fragment, storeVars, geoVars, dashVars>>

\* ---------------------------------------------------- the store specification
MaxFileLen == 3
MaxSecondLen == 1
MaxPasses == 2

StoreRecord1 == TagPage(ExtractHotelData(GoodFragment, 1)[1], 1)
StoreRecord2 ==
    [TagPage(ExtractHotelData(PlainFragment, 2)[1], 1) EXCEPT
        !.tennis_facilities.surface_counts = <<[surface |-> <<"Clay">>, count |-> 2]>>]
\* a record without the key "name"
NamelessRecord == [k \in DOMAIN StoreRecord1 \ {"name"} |-> StoreRecord1[k]]
\* a record whose name is null
NullNameRecord == [StoreRecord1 EXCEPT !.name = Null]
\* a record whose price amount is an array: the prices insert fails
BadAmountRecord == [StoreRecord1 EXCEPT !.price.amount = Some(JsonArray)]
\* a record whose surface_counts is an array: the reading of its items fails
BadSurfacesRecord == [StoreRecord1 EXCEPT !.tennis_facilities.surface_counts = <<JsonArray>>]
StoreRecords ==
    {StoreRecord1, StoreRecord2, NamelessRecord, NullNameRecord, BadAmountRecord,
     BadSurfacesRecord}

FileContents(n) == {Json(data) : data \in UNION {[1..k -> StoreRecords] : k \in 0..n}}

\* The log entry of a construction: no file, the counts of the fresh store.
Constructed == [file |-> <<>>, returned |-> 0, counts |-> RowCounts(EmptyDB)]

\* TennisHotelsDB(): lines 29-40, the database file deleted and set up again
DbInitialize ==
    /\ pc = "db_ready"
    /\ Len(passes) < MaxPasses
    /\ db' = InitializeDatabase(db)
    /\ passes' = Append(passes, Constructed)
    /\ total_hotels' = None
    /\ UNCHANGED <<pc, scraperVars_but_pc, extractVars, geoVars, dashVars>>

\* process_json_file(file)
DbProcessJsonFile ==
    /\ pc = "db_ready"
    /\ Len(passes) < MaxPasses
    /\ \E file \in {n \in DOMAIN disk : disk[n].state # "absent"} :
          LET r == ProcessJsonFile(db, disk[file], clock)
          IN  /\ db' = r.db
              /\ passes' = Append(passes, Pass(file, r))
              /\ clock' = clock + Len(disk[file].data)
    /\ UNCHANGED <<total_hotels, delays, pc, current_page, total_pages, all_hotels_data, country_idx,
                   country_hotels, all_countries_data, disk, pagination, requested,
                   extracted, navOk, faults, ckpt_ok, sweepLog, extractVars, geoVars, dashVars>>

\* The store after consolidate_all_files, with what it returned: r is what the
\* loop over the files, taken in the given order, made of the store.
Consolidate(r, order) ==
    /\ db' = r.db
    /\ passes' = passes \o r.passes
    /\ total_hotels' = Some([returned |-> r.returned,
                             fresh |-> db = EmptyDB,
                             files |-> order,
                             hotels |-> Cardinality(r.db.hotels)])

\* consolidate_all_files()
DbConsolidateAllFiles ==
    /\ pc = "db_ready"
    /\ Len(passes) + Cardinality(Consolidated(disk)) <= MaxPasses
    /\ \E order \in Orders(Consolidated(disk)) :
          Consolidate(ConsolidateAllFiles(db, disk, order, clock), order)
    /\ clock' = clock + 1
    /\ UNCHANGED <<delays, pc, current_page, total_pages, all_hotels_data, country_idx,
                   country_hotels, all_countries_data, disk, pagination, requested,
                   extracted, navOk, faults, ckpt_ok, sweepLog, extractVars, geoVars, dashVars>>


\* -------------------------------------------------- the geocoder specification
MaxCallsPerPair == 2

\* The hotels a consolidated store may hold when the geocoder starts.
GeoRecord(name, location, country, ts) ==
    [StoreRecord1 EXCEPT !.name = name, !.location = location, !.country = country,
                         !.scrape_timestamp = ts]
GeoRecords ==
    << GeoRecord(<<"Grand">>, <<"Rome">>, <<"Italy">>, 1),
       GeoRecord(<<"Plaza">>, <<"Rome">>, <<>>, 2) >>
GeoPairs == {<<GeoRecords[i].location, GeoRecords[i].country>> : i \in 1..Len(GeoRecords)}

\* The updater's state as one value, for the operators above.
GeoState ==
    [db |-> db, cache |-> cache, cache_file |-> cache_file, faults |-> faults,
     calls |-> geo_calls, returned |-> None, how |-> "none"]

SetGeoState(g) ==
    /\ db' = g.db
    /\ cache' = g.cache
    /\ cache_file' = g.cache_file
    /\ faults' = g.faults
    /\ geo_calls' = g.calls

geoFrame == <<pc, current_page, total_pages, all_hotels_data, country_idx, country_hotels,
              all_countries_data, disk, clock, pagination, requested, extracted, navOk,
              ckpt_ok, sweepLog, delays, extractVars, passes, total_hotels, dashVars>>

\* geocode_location(location, country), called on its own
GeoGeocodeLocation ==
    /\ pc = "geo_ready"
    /\ \E pair \in GeoPairs, answer \in ApiAnswers, outcome \in Outcomes(faults) :
          /\ Len(geo_calls[pair]) < MaxCallsPerPair
          /\ answer.kind # "result" => outcome = "ok"
          /\ LET g == GeocodeLocation(GeoState, pair[1], pair[2], answer, outcome)
             IN  SetGeoState([g EXCEPT !.calls[pair] = Append(@, g.how)])
    /\ UNCHANGED geoFrame

\* update_database_geocoding()
GeoUpdateDatabaseGeocoding ==
    /\ pc = "geo_ready"
    /\ LET todo == LocationsToGeocode(db)
           n == Cardinality(todo)
       IN  /\ \A pair \in todo : Len(geo_calls[pair]) < MaxCallsPerPair
           /\ \E order \in Orders(todo), answers \in [1..n -> ApiAnswers],
                 outcomes \in [1..n -> WriteOutcomes] :
                 /\ \A i \in 1..n : answers[i].kind # "result" => outcomes[i] = "ok"
                 /\ Cardinality({i \in 1..n : outcomes[i] # "ok"}) + faults <= MaxFaults
                 /\ SetGeoState(GeocodeAll(GeoState, order, answers, outcomes))
    /\ UNCHANGED geoFrame

\* update_missing_countries()
GeoUpdateMissingCountries ==
    /\ pc = "geo_ready"
    /\ db' = UpdateMissingCountries(db, LocationsToUpdate(db))
    /\ UNCHANGED <<cache, cache_file, faults, geo_calls>>
    /\ UNCHANGED geoFrame

\* ------------------------------------------------- the Amadeus tab (dashboard)
\* What the Amadeus service answers to one request: an error response, another
\* failure, or a list.
AmadeusAnswers(lists) == [kind : {"response_error", "exception", "data"}, data : lists]

\* amadeus_hotels.py lines 84-108: [cities, shown]
GetCitySearch(amadeus, answer) ==
    IF ~amadeus
    THEN [cities |-> <<>>, shown |-> <<"error: Amadeus API not initialized">>]
    ELSE [cities |-> IF answer.kind = "data" THEN answer.data ELSE <<>>, shown |-> <<>>]

\* pd.DataFrame(): no columns, no rows
EmptyFrame == [columns |-> {}, rows |-> 0]

\* amadeus_hotels.py line 58: hotels_response.data[:20]
MaxHotelsTaken == 20
Min(a, b) == IF a <= b THEN a ELSE b

\* amadeus_hotels.py lines 38-82, the body of search_hotels: [df, shown]
SearchHotels(amadeus, answer) ==
    IF ~amadeus
    THEN [df |-> EmptyFrame, shown |-> <<"error: Amadeus API not initialized">>]
    ELSE IF answer.kind = "response_error"
    THEN [df |-> EmptyFrame, shown |-> <<"error: API Error">>]
    ELSE IF answer.kind = "exception"
    THEN [df |-> EmptyFrame, shown |-> <<"error: Error">>]
    ELSE IF answer.data = <<>>
    THEN [df |-> EmptyFrame, shown |-> <<>>]
    ELSE [df |-> [columns |-> {"hotel_id", "name", "chain_code", "iata_code", "latitude",
                               "longitude", "address", "city_code", "country_code"},
                  rows |-> Min(Len(answer.data), MaxHotelsTaken)],
          shown |-> <<>>]

\* amadeus_hotels.py lines 33-37: the parameters of search_hotels after self,
\* and the one without a default
SearchHotelsParameters == {"city_code", "adults", "check_in", "check_out"}
SearchHotelsRequired == {"city_code"}

\* dashboard.py lines 204-211: the keywords of the call
SearchHotelsKeywords ==
    {"city_code", "check_in", "check_out", "adults", "ratings", "price_range"}

\* A call by keywords binds when every keyword is a parameter and every
\* parameter without a default is given; otherwise Python raises TypeError
\* before the body runs.
Binds(keywords, parameters, required) ==
    keywords \subseteq parameters /\ required \subseteq keywords

\* dashboard.py lines 91-139: create_map reads these columns of a row; a
\* missing one raises KeyError inside its try
CreateMap(df) ==
    IF {"name", "location", "country", "total_courts", "lighted_courts", "surface_types",
        "currency", "price", "rating_score", "rating_text", "latitude", "longitude"}
           \subseteq df.columns
    THEN <<"map">>
    ELSE <<"error: Error creating map">>

\* dashboard.py lines 213-227: what follows the search call: [shown, raised]
ShowHotels(h) ==
    IF h.df.rows = 0
    THEN [shown |-> h.shown \o <<"warning: No hotels found matching your criteria">>,
          raised |-> None]
    ELSE IF {"name", "rating", "price_total", "currency", "address", "chain_code"}
                \subseteq h.df.columns
    THEN [shown |-> h.shown \o CreateMap(h.df) \o <<"table">>, raised |-> None]
    ELSE [shown |-> h.shown \o CreateMap(h.df), raised |-> Some("KeyError")]

\* The dashboard before the tab has run: its Amadeus client (amadeus_hotels.py
\* lines 19-31: None when the credentials are missing) and no run.
NotRun(amadeus) ==
    [amadeus |-> amadeus, runs |-> 0, script |-> "none", city_query |-> <<>>, cities |-> <<>>, city_code |-> "",
     ratings |-> {}, adults |-> 0, searched |-> FALSE, df |-> EmptyFrame, shown |-> <<>>,
     raised |-> None]

\* dashboard.py lines 167-229: one run of show_amadeus_search_tab with the
\* widgets in state w; city_answer and hotel_answer are what the service
\* answers to the requests of the run.
ShowAmadeusSearchTab(d, w, city_answer, hotel_answer) ==
    LET c == GetCitySearch(d.amadeus, city_answer)
        run == [d EXCEPT !.runs = @ + 1, !.script = "dashboard", !.city_query = w.city_query, !.cities = <<>>,
                         !.city_code = "", !.ratings = {}, !.adults = 0,
                         !.searched = FALSE, !.df = EmptyFrame, !.shown = <<>>,
                         !.raised = None]
    IN  IF w.city_query = <<>> THEN run
        ELSE IF c.cities = <<>>
        THEN [run EXCEPT !.shown = c.shown \o <<"warning: No cities found matching your search">>]
        ELSE IF ~w.search_hotels
        THEN [run EXCEPT !.cities = c.cities, !.city_code = c.cities[Min(w.selected, Len(c.cities))],
                         !.ratings = w.ratings, !.adults = w.adults, !.shown = c.shown]
        ELSE IF ~Binds(SearchHotelsKeywords, SearchHotelsParameters, SearchHotelsRequired)
        THEN [run EXCEPT !.cities = c.cities, !.city_code = c.cities[Min(w.selected, Len(c.cities))],
                         !.ratings = w.ratings, !.adults = w.adults, !.searched = TRUE,
                         !.shown = c.shown, !.raised = Some("TypeError")]
        ELSE [run EXCEPT !.cities = c.cities, !.city_code = c.cities[Min(w.selected, Len(c.cities))],
                         !.ratings = w.ratings, !.adults = w.adults, !.searched = TRUE,
                         !.df = SearchHotels(d.amadeus, hotel_answer).df,
                         !.shown = c.shown \o ShowHotels(SearchHotels(d.amadeus, hotel_answer)).shown,
                         !.raised = ShowHotels(SearchHotels(d.amadeus, hotel_answer)).raised]

\* test_amadeus.py lines 30-36: the keywords of the call
TestSearchKeywords == {"city_code", "check_in", "check_out", "adults"}

\* test_amadeus.py lines 38-45: what follows the search call: [shown, raised]
TestShowHotels(h) ==
    IF h.df.rows = 0
    THEN [shown |-> h.shown \o <<"error: No hotels found">>, raised |-> None]
    ELSE IF {"name", "rating", "price_total", "currency", "room_type", "board_type"}
                \subseteq h.df.columns
    THEN [shown |-> h.shown \o <<"table">>, raised |-> None]
    ELSE [shown |-> h.shown, raised |-> Some("KeyError")]

\* test_amadeus.py lines 5-47: one run of test_search
TestSearch(d, city_answer, hotel_answer) ==
    LET c == GetCitySearch(d.amadeus, city_answer)
        run == [d EXCEPT !.runs = @ + 1, !.script = "test_amadeus", !.city_query = <<"PAR">>, !.cities = c.cities,
                         !.city_code = "", !.ratings = {}, !.adults = 0,
                         !.searched = FALSE, !.df = EmptyFrame, !.shown = c.shown,
                         !.raised = None]
    IN  IF c.cities = <<>>
        THEN [run EXCEPT !.shown = c.shown \o <<"error: No cities found">>]
        ELSE IF ~Binds(TestSearchKeywords, SearchHotelsParameters, SearchHotelsRequired)
        THEN [run EXCEPT !.city_code = c.cities[1], !.adults = 2, !.searched = TRUE,
                         !.raised = Some("TypeError")]
        ELSE [run EXCEPT !.city_code = c.cities[1], !.adults = 2, !.searched = TRUE,
                         !.df = SearchHotels(d.amadeus, hotel_answer).df,
                         !.shown = c.shown \o TestShowHotels(SearchHotels(d.amadeus, hotel_answer)).shown,
                         !.raised = TestShowHotels(SearchHotels(d.amadeus, hotel_answer)).raised]

\* ------------------------------------------------------------ specifications
InitStoreIdle ==
    /\ db = EmptyDB
    /\ passes = <<>>
    /\ total_hotels = None

InitGeoIdle ==
    /\ cache = <<>>
    /\ cache_file = Absent
    /\ geo_calls = [pair \in GeoPairs |-> <<>>]

InitDashIdle == dash = NotRun(FALSE)

\* The scraper: one call of scrape_hotels or of scrape_all_countries.
Init == InitScraper /\ InitExtractIdle /\ InitStoreIdle /\ InitGeoIdle /\ InitDashIdle
Next == ScrapeHotels \/ ScrapeAllCountries
Spec == Init /\ [][Next]_vars

\* One call of scrape_hotels, which runs on until it returns: every call it
\* waits on is bounded by a timeout.
SpecWalk == Init /\ [][ScrapeHotels]_vars /\ WF_vars(ScrapeHotels)

\* The extractor, on every fragment of Fragments.
InitExtract ==
    /\ InitScraperData
    /\ pc = "x_call"
    /\ fragment \in Fragments \cup PanelFragments
    /\ hotel_data = None
    /\ InitStoreIdle
    /\ InitGeoIdle
    /\ InitDashIdle
NextExtract == Extract
SpecExtract == InitExtract /\ [][NextExtract]_vars


\* The store: a fresh TennisHotelsDB over a directory of JSON files.
InitStore ==
    /\ pc = "db_ready"
    /\ current_page = 1
    /\ total_pages = 1
    /\ all_hotels_data = <<>>
    /\ country_idx = 1
    /\ country_hotels = <<>>
    /\ all_countries_data = <<>>
    /\ \E a \in FileContents(MaxFileLen),
          b \in FileContents(MaxSecondLen) \cup {Absent, Corrupt} :
          disk = [n \in FileNames |->
                    IF n = LatestFile THEN a
                    ELSE IF n = CombinedFile THEN b
                    ELSE IF n = CheckpointFile(1) THEN Json(<<StoreRecord1>>)
                    ELSE Absent]
    /\ clock = 10
    /\ pagination = <<>>
    /\ requested = <<>>
    /\ extracted = <<>>
    /\ navOk = TRUE
    /\ faults = 0
    /\ ckpt_ok = FALSE
    /\ sweepLog = <<>>
    /\ delays = NoDelays
    /\ InitExtractIdle
    /\ InitStoreIdle
    /\ InitGeoIdle
    /\ InitDashIdle
NextStore == DbInitialize \/ DbProcessJsonFile \/ DbConsolidateAllFiles
SpecStore == InitStore /\ [][NextStore]_vars

\* The geocoder: a GeocodingUpdater over a consolidated store.
InitGeo ==
    /\ InitScraperData
    /\ pc = "geo_ready"
    /\ InitExtractIdle
    /\ passes = <<>>
    /\ total_hotels = None
    /\ \E present \in (SUBSET (1..Len(GeoRecords))) \ {{}} :
          db = ProcessJsonFile(EmptyDB,
                   Json(SelectSeq(GeoRecords, LAMBDA r : \E i \in present : GeoRecords[i] = r)),
                   0).db
    /\ InitGeoIdle
    /\ InitDashIdle
NextGeo == GeoGeocodeLocation \/ GeoUpdateDatabaseGeocoding \/ GeoUpdateMissingCountries
SpecGeo == InitGeo /\ [][NextGeo]_vars

\* The store after main() of consolidate_data.py: r is what the loop over the
\* files made of the store set up anew.
ConsolidateAnew(r, order) ==
    /\ db' = r.db
    /\ passes' = passes \o <<Constructed>> \o r.passes
    /\ total_hotels' = Some([returned |-> r.returned, fresh |-> TRUE, files |-> order,
                             hotels |-> Cardinality(r.db.hotels)])

\* main() of consolidate_data.py, lines 225-233, run beside the geocoder: the
\* store is constructed anew and filled from the files of the directory.
DbMain ==
    /\ pc = "geo_ready"
    /\ Len(passes) + 1 + Cardinality(Consolidated(disk)) <= MaxPasses
    /\ \E order \in Orders(Consolidated(disk)) :
          ConsolidateAnew(ConsolidateAllFiles(InitializeDatabase(db), disk, order, clock), order)
    /\ UNCHANGED <<pc, scraperVars_but_pc, extractVars, geoVars, dashVars>>

\* The pipeline: the scraped file consolidated into the store, the geocoder
\* run over the store, and the consolidation run again.
InitPipeline ==
    /\ current_page = 1
    /\ total_pages = 1
    /\ all_hotels_data = <<>>
    /\ country_idx = 1
    /\ country_hotels = <<>>
    /\ all_countries_data = <<>>
    /\ clock = 0
    /\ pagination = <<>>
    /\ requested = <<>>
    /\ extracted = <<>>
    /\ navOk = TRUE
    /\ faults = 0
    /\ ckpt_ok = FALSE
    /\ sweepLog = <<>>
    /\ delays = NoDelays
    /\ pc = "geo_ready"
    /\ InitExtractIdle
    /\ passes = <<>>
    /\ total_hotels = None
    /\ \E present \in (SUBSET (1..Len(GeoRecords))) \ {{}} :
          /\ disk = [n \in FileNames |->
                       IF n = LatestFile
                       THEN Json(SelectSeq(GeoRecords,
                                           LAMBDA r : \E i \in present : GeoRecords[i] = r))
                       ELSE Absent]
          /\ db = ProcessJsonFile(EmptyDB, disk[LatestFile], 0).db
    /\ InitGeoIdle
    /\ InitDashIdle
NextPipeline == NextGeo \/ DbMain
SpecPipeline == InitPipeline /\ [][NextPipeline]_vars

\* The dashboard: runs of the Amadeus tab, one per interaction of the user.
MaxRuns == 3
Widgets ==
    [city_query : {<<>>, <<"rome">>}, selected : 1..2, ratings : SUBSET {"4", "5"},
     adults : 1..2, search_hotels : BOOLEAN]

\* One interaction: streamlit runs the tab again with the widgets as they are.
DashRun ==
    /\ pc = "dash_ready"
    /\ dash.runs < MaxRuns
    /\ \E w \in Widgets, city_answer \in AmadeusAnswers({<<>>, <<"ROM">>, <<"ROM", "PAR">>}),
          hotel_answer \in AmadeusAnswers({<<>>, <<"hotel">>}) :
          dash' = ShowAmadeusSearchTab(dash, w, city_answer, hotel_answer)
    /\ UNCHANGED <<pc, scraperVars_but_pc, extractVars, storeVars, geoVars>>

\* One run of the test script.
DashTestSearch ==
    /\ pc = "dash_ready"
    /\ dash.runs < MaxRuns
    /\ \E city_answer \in AmadeusAnswers({<<>>, <<"ROM">>, <<"ROM", "PAR">>}),
          hotel_answer \in AmadeusAnswers({<<>>, <<"hotel">>}) :
          dash' = TestSearch(dash, city_answer, hotel_answer)
    /\ UNCHANGED <<pc, scraperVars_but_pc, extractVars, storeVars, geoVars>>

InitDash ==
    /\ InitScraperData
    /\ pc = "dash_ready"
    /\ InitExtractIdle
    /\ InitStoreIdle
    /\ InitGeoIdle
    /\ \E amadeus \in BOOLEAN : dash = NotRun(amadeus)
NextDash == DashRun \/ DashTestSearch
SpecDash == InitDash /\ [][NextDash]_vars


\* ------------------------------------------------------------ the properties
Range(seq) == {seq[i] : i \in 1..Len(seq)}
Upto(n) == [i \in 1..n |-> i]
NonDecreasing(seq) == \A i, j \in 1..Len(seq) : i <= j => seq[i] <= seq[j]

WalkPcs ==
    {"sh_goto", "sh_wait", "sh_extract", "sh_checkpoint", "sh_navigate", "sh_close",
     "sh_except", "sh_return", "sh_raised"}
SweepPagePcs == {"sc_page", "sc_close"}

\* The pages of the walk whose checkpoint has been taken.
CompletedPages == IF pc = "sh_checkpoint" THEN Len(extracted) - 1 ELSE Len(extracted)

\* The largest numeric indicator among the pagination links, 1 without one.
NumericIndicators(links) ==
    {DecimalValue(links[i]) : i \in {j \in 1..Len(links) : IsDigitText(links[j])}}
MaxIndicator(links) ==
    IF NumericIndicators(links) = {} THEN 1
    ELSE CHOOSE n \in NumericIndicators(links) : \A m \in NumericIndicators(links) : m <= n

\* C1: while every navigation of a walk succeeds, with N the largest numeric
\* indicator of the first page's pagination (1 without one), the pages
\* requested so far are in increasing order and none is beyond N, the pages
\* extracted so far are 1, 2, ... in order, and when the walk ends, in
\* scrape_hotels and in the sweep of a country, pages 1..N have all been
\* requested and extracted and page N+1 has not been requested.
C1_PaginationTermination ==
    (navOk /\ pc \in WalkPcs \cup SweepPagePcs) =>
        /\ NonDecreasing(requested)
        /\ \A i \in 1..Len(requested) : requested[i] \in 1..MaxIndicator(pagination)
        /\ extracted = Upto(Len(extracted))
        /\ Len(extracted) <= MaxIndicator(pagination)
        /\ pc \in {"sh_return", "sc_close"} =>
              /\ extracted = Upto(MaxIndicator(pagination))
              /\ Range(requested) = 1..MaxIndicator(pagination)

\* A walk of scrape_hotels over two pages, announced by a numeric and a
\* non-numeric link, that returned without a failure.
C1_Witness ==
    /\ pc = "sh_return"
    /\ navOk
    /\ pagination = <<PageTitle(2), NonNumericTitle>>
    /\ extracted = <<1, 2>>

\* C2: extract_hotel_data returns a record for every fragment whose DOM
\* queries do not raise, whatever the texts of its elements.
C2_RecordForEveryQueryableFragment ==
    (pc = "x_returned" /\ ~fragment.dom_raises) => hotel_data # None

\* C3: a pass over the file the previous pass was over leaves the number of
\* rows of hotels, prices, tennis_facilities and court_surfaces as it was.
C3_SecondPassAddsNoRows ==
    \A i \in 1..(Len(passes) - 1) :
        (passes[i].file # <<>> /\ passes[i + 1].file = passes[i].file) =>
            passes[i + 1].counts = passes[i].counts

\* How a call of geocode_location ended that made a network request.
NetworkRequest == {"result", "empty", "error"}

\* C4 as stated: the first two calls for a pair make at most one network
\* request, whatever the first call obtained.
C4_AtMostOneRequest ==
    \A pair \in GeoPairs :
        Len(geo_calls[pair]) >= 2 =>
            ~(geo_calls[pair][1] \in NetworkRequest /\ geo_calls[pair][2] \in NetworkRequest)

\* C4, amended: once a call for a pair has obtained a result, from the service
\* or from the cache, every later call for the pair is answered from the
\* cache; a call is answered from the cache only after a call that obtained a
\* result, so after an empty list or an error the next call asks the service
\* again.
C4_OneRequestAfterResult ==
    \A pair \in GeoPairs : \A j \in 1..Len(geo_calls[pair]) :
        (geo_calls[pair][j] = "cached") <=>
            (\E i \in 1..(j - 1) : geo_calls[pair][i] = "result")

\* Two calls for a pair, the first answered by the service with a result.
C4_Witness ==
    \E pair \in GeoPairs :
        /\ Len(geo_calls[pair]) >= 2
        /\ geo_calls[pair][1] = "result"
        /\ geo_calls[pair][2] = "cached"

\* C5: no step of the geocoder changes the country of a hotel row whose
\* country is not empty.
C5_CountryKept ==
    [][\A h \in db.hotels :
          ~Empty(h.country) =>
              \E k \in db'.hotels : k.id = h.id /\ k.country = h.country]_vars

\* The records of the pages completed so far, in scrape_hotels and in the sweep.
CompletedRecords ==
    {hd \in Range(all_hotels_data) : hd.page_number <= CompletedPages}
        \cup Range(all_countries_data) \cup Range(country_hotels)

\* The store holds a hotel row of the record.
Loaded(store, hd) ==
    \E row \in store.hotels :
        /\ row.name = hd.name
        /\ row.scrape_timestamp = hd.scrape_timestamp
        /\ row.page_number = hd.page_number
        /\ row.source_country = hd.source_country

\* C6: wherever the crawl stops, and even when no file write has failed, a
\* consolidation of the files then on disk loads every record of every page
\* completed before the stop.
C6_CompletedPagesSurvive ==
    faults = 0 =>
        \A order \in Orders(Consolidated(disk)) :
            \A hd \in CompletedRecords :
                Loaded(ConsolidateAllFiles(EmptyDB, disk, order, 0).db, hd)

\* The records of pages 1..k, and of page k alone, in extraction order.
UpToPage(data, k) == SelectSeq(data, LAMBDA hd : hd.page_number <= k)
OfPage(data, k) == SelectSeq(data, LAMBDA hd : hd.page_number = k)

\* In scrape_hotels the file written for a completed page k holds the records
\* of pages 1..k.
WalkFilesAccumulate ==
    pc \in WalkPcs =>
        \A k \in 1..CompletedPages :
            disk[CheckpointFile(k)].state = "json" =>
                disk[CheckpointFile(k)].data = UpToPage(all_hotels_data, k)

\* C7 as stated: in scrape_hotels and in the sweep of a country, the
\* page-numbered file written for a completed page k holds the records of
\* pages 1..k in extraction order.
C7_PageFileAccumulates ==
    /\ WalkFilesAccumulate
    /\ pc \in SweepPagePcs =>
          \A k \in 1..Len(extracted) :
              disk[CountryCheckpointFile(Country, k)].state = "json" =>
                  disk[CountryCheckpointFile(Country, k)].data = UpToPage(country_hotels, k)

\* C7, amended: in scrape_hotels the page-numbered file written for a
\* completed page k holds the records of pages 1..k in extraction order; in
\* the sweep of a country the file written for page k holds the records of
\* page k alone.
C7_PageFileContents ==
    /\ WalkFilesAccumulate
    /\ pc \in SweepPagePcs =>
          \A k \in 1..Len(extracted) :
              disk[CountryCheckpointFile(Country, k)].state = "json" =>
                  disk[CountryCheckpointFile(Country, k)].data = OfPage(country_hotels, k)

\* Two pages of scrape_hotels completed, each with a record, and the file of
\* page 2 written with both.
C7_Witness ==
    /\ pc \in WalkPcs
    /\ CompletedPages = 2
    /\ disk[CheckpointFile(2)].state = "json"
    /\ Len(OfPage(all_hotels_data, 1)) = 1
    /\ Len(disk[CheckpointFile(2)].data) = 2

\* C8: once the first page of a walk is completed, the latest file and the
\* page-numbered file of the most recently completed page have the same
\* content, whether or not a write of a checkpoint failed.
C8_LatestEqualsLastCheckpoint ==
    (pc \in WalkPcs /\ CompletedPages >= 1) =>
        disk[LatestFile] = disk[CheckpointFile(CompletedPages)]

\* A record that insert_hotel_data can insert.
Insertable(hd) == "name" \in DOMAIN hd /\ hd.name # Null

\* C9: a pass over a file counts every record of the file that can be
\* inserted, those before and those after a record that cannot.
C9_OnlyTheBadRecordSkipped ==
    \A i \in 1..Len(passes) :
        (passes[i].file # <<>> /\ disk[passes[i].file].state = "json") =>
            passes[i].returned =
                Cardinality({j \in 1..Len(disk[passes[i].file].data) :
                                Insertable(disk[passes[i].file].data[j])})

\* The records of the countries of the log that did not fail, in order.
RECURSIVE SweptRecords(_)
SweptRecords(log) ==
    IF log = <<>> THEN <<>>
    ELSE (IF Head(log).failed THEN <<>> ELSE Head(log).records) \o SweptRecords(Tail(log))

\* C10: when scrape_all_countries ends, every country of the list has been
\* taken up in order, failed or not, the combined list holds the records of
\* the countries that did not fail, and the combined file holds that list
\* (the write of the combined file itself may fail like any write).
C10_SweepContinues ==
    pc = "sc_done" =>
        /\ Len(sweepLog) = Len(european_countries)
        /\ \A i \in 1..Len(sweepLog) : sweepLog[i].country = european_countries[i]
        /\ all_countries_data = SweptRecords(sweepLog)
        /\ \A i \in 1..Len(all_countries_data) :
              \E j \in 1..Len(sweepLog) :
                  /\ ~sweepLog[j].failed
                  /\ all_countries_data[i].source_country = sweepLog[j].country
        /\ faults = 0 => disk[CombinedFile] = Json(SweptRecords(sweepLog))
        /\ disk[CombinedFile] \in {Json(SweptRecords(sweepLog)), Absent, Corrupt}

\* The first country failed, the second was swept and its records are in the
\* combined file.
C10_Witness ==
    /\ pc = "sc_done"
    /\ sweepLog[1].failed
    /\ ~sweepLog[2].failed
    /\ sweepLog[2].records # <<>>
    /\ disk[CombinedFile] = Json(sweepLog[2].records)

\* The positions inside the page loop of scrape_hotels (lines 377-445).
WalkLoopPcs == {"sh_goto", "sh_wait", "sh_extract", "sh_checkpoint", "sh_navigate"}

\* C11: a call of scrape_hotels that has entered its page loop returns (or
\* its handler raises); the loop never takes more iterations than the page
\* count; and a step leaves the loop only by an exception, or after the
\* checkpoint of a page with current page >= total pages, or from
\* navigate_to_next_page (the control absent, or the load or the address
\* confirmation failing), or from the wait for the listing container; after
\* the checkpoint of the last page the loop is always left.
C11_WalkTerminates ==
    /\ [](pc \in WalkLoopPcs => <>(pc \in {"sh_return", "sh_raised"}))
    /\ [](pc \in WalkPcs => Len(extracted) <= total_pages)
    /\ [][(pc \in WalkLoopPcs /\ pc' \notin WalkLoopPcs) =>
              \/ pc' = "sh_except"
              \/ /\ pc' = "sh_close"
                 /\ \/ pc = "sh_checkpoint" /\ current_page >= total_pages
                    \/ pc = "sh_navigate"
                    \/ pc = "sh_wait"]_vars
    /\ [][(pc = "sh_checkpoint" /\ current_page >= total_pages) => pc' = "sh_close"]_vars

\* A walk over a two-page pagination that ended after page 1 because the
\* control of page 2 was absent: page 2 was never requested.
C11_Witness ==
    /\ pc = "sh_return"
    /\ total_pages = 2
    /\ requested = <<1>>
    /\ extracted = <<1>>
    /\ disk[CheckpointFile(1)].state = "json"

\* The positions of scrape_all_countries, the crawl that main runs.
SweepPcs == {"sc_country", "sc_page", "sc_close", "sc_done"}

\* C12: in the crawl that main runs, as many delays of the request range have
\* been taken as pages have been requested, as many delays of the page-load
\* range as pages have been loaded and read, and a delay of the listing range
\* for every listing extracted after the first.
C12_DelaysInMainCrawl ==
    pc \in SweepPcs =>
        /\ delays["min_max_delay"] >= Len(requested)
        /\ delays["page_load_delay"] >= Len(extracted)
        /\ delays["hotel_process_delay"] >= Len(country_hotels) - 1

\* C13: for a location text made of a listed prefix, a city, a line break and
\* a country, the record's location is the city without its trailing comma
\* and the record's country is the country, also when the city contains a
\* prefix string.
C13_CityAndCountry ==
    (pc = "x_returned" /\ hotel_data # None) =>
        \A l \in LocationParts :
            fragment.location = Elem(LocationText(l)) =>
                /\ hotel_data[1].location = RStripChars(l.city, {","})
                /\ hotel_data[1].country = l.country

\* The float of a whole number.
Whole(n) == Some([m |-> n, e |-> 0])

\* C14: for a price text made of a currency glyph and digits, plain or with a
\* thousands separator, the amount of the record is the number the digits
\* spell with the separator left out, and the currency is "GBP".
C14_PriceAmount ==
    (pc = "x_returned" /\ hotel_data # None /\ fragment.price_box.present) =>
        \A p \in PriceParts :
            fragment.price_box.amount = Elem(PriceText(p)) =>
                /\ hotel_data[1].price.amount =
                       Whole(1000 * DecimalValue(p.thousands) + DecimalValue(p.rest))
                /\ hotel_data[1].price.currency = "GBP"

\* The text of a euro sign and "1,000" was extracted as 1000 pounds.
C14_Witness ==
    /\ pc = "x_returned"
    /\ hotel_data # None
    /\ fragment.price_box.present
    /\ fragment.price_box.amount = Elem(<<"euro", "1", ",", "0", "0", "0">>)
    /\ hotel_data[1].price.amount = Whole(1000)
    /\ hotel_data[1].price.currency = "GBP"

\* The digits 0 to 9 of a text, in order.
DecimalDigits(text) == SelectSeq(text, LAMBDA c : c \in Digits)

\* The last row of the panel of the fragment, and the facilities as the rows
\* before it left them.
LastRow == fragment.panel.rows[Len(fragment.panel.rows)]
BeforeLastRow ==
    ProcessRows(InitialHotelData(clock).tennis_facilities,
                SubSeq(fragment.panel.rows, 1, Len(fragment.panel.rows) - 1))
LabelHas(pattern) == Contains(LowerText(LastRow.label), pattern)
HasTotalPhrase ==
    \/ LabelHas(<<"number of all ", "tennis ", "court", "s">>)
    \/ LabelHas(<<"tennis ", "court", "s", " total">>)
PanelRead ==
    /\ pc = "x_returned"
    /\ fragment.panel.present
    /\ LastRow.spans_ok

\* C15: a row whose label holds one of the two total phrases sets total_courts
\* to the integer its decimal digits spell; a row whose label holds "lighted"
\* and "court" and neither total phrase sets lighted_courts likewise; when the
\* value has no digit, or a digit character that is not a decimal digit, the
\* field keeps its value; the record is returned in every case.
C15_CourtCounts ==
    PanelRead =>
        /\ hotel_data # None
        /\ HasTotalPhrase =>
              hotel_data[1].tennis_facilities.total_courts =
                  IF DecimalDigits(LastRow.value) # <<>> /\ ~Contains(LastRow.value, <<"sup2">>)
                  THEN DecimalValue(DecimalDigits(LastRow.value))
                  ELSE BeforeLastRow.total_courts
        /\ (LabelHas(<<"lighted">>) /\ LabelHas(<<"court">>) /\ ~HasTotalPhrase) =>
              hotel_data[1].tennis_facilities.lighted_courts =
                  IF DecimalDigits(LastRow.value) # <<>> /\ ~Contains(LastRow.value, <<"sup2">>)
                  THEN DecimalValue(DecimalDigits(LastRow.value))
                  ELSE BeforeLastRow.lighted_courts

\* C15 as stated: every label with "lighted" and "court" sets lighted_courts,
\* and only a value without a digit leaves a field as it was.
C15_AsStated ==
    PanelRead =>
        /\ hotel_data # None
        /\ HasTotalPhrase =>
              hotel_data[1].tennis_facilities.total_courts =
                  IF DecimalDigits(LastRow.value) # <<>>
                  THEN DecimalValue(DecimalDigits(LastRow.value))
                  ELSE BeforeLastRow.total_courts
        /\ (LabelHas(<<"lighted">>) /\ LabelHas(<<"court">>)) =>
              hotel_data[1].tennis_facilities.lighted_courts =
                  IF DecimalDigits(LastRow.value) # <<>>
                  THEN DecimalValue(DecimalDigits(LastRow.value))
                  ELSE BeforeLastRow.lighted_courts

\* "Number of all tennis courts total" with "6 courts" set the total to 6, and
\* the row after it, "Lighted Courts Available" with "none", left the lighted
\* courts at their default.
C15_Witness ==
    /\ PanelRead
    /\ fragment.panel.rows[1].label = <<"Number of all ", "tennis ", "court", "s", " total">>
    /\ fragment.panel.rows[1].value = <<"6", " ", "courts">>
    /\ Len(fragment.panel.rows) = 2
    /\ LastRow.label = <<"Lighted", " ", "Court", "s", " ", "Available">>
    /\ LastRow.value = <<"no", "ne">>
    /\ hotel_data # None
    /\ hotel_data[1].tennis_facilities.total_courts = 6
    /\ hotel_data[1].tennis_facilities.lighted_courts = 0

\* The text after the first occurrence of a one-chunk separator.
AfterFirst(text, sep) ==
    LET first == CHOOSE i \in 1..Len(text) :
                     text[i] = sep /\ \A j \in 1..(i - 1) : text[j] # sep
    IN  SubSeq(text, first + 1, Len(text))

\* C16: for a row whose label holds "tennis lessons", lessons_available is
\* true exactly when the value holds none of the negative tokens, and when the
\* value holds "charge" or "cost" and a colon, lessons_cost is everything
\* after the first colon, trimmed, also when there are more colons.
C16_LessonsCost ==
    (PanelRead /\ LabelHas(<<"tennis ", "lessons">>)) =>
        /\ hotel_data # None
        /\ hotel_data[1].tennis_facilities.lessons_available =
               (\A no_text \in no_texts : ~Contains(LowerText(LastRow.value), no_text))
        /\ ( /\ \/ Contains(LowerText(LastRow.value), <<"charge">>)
                 \/ Contains(LowerText(LastRow.value), <<"cost">>)
              /\ Contains(LastRow.value, <<":">>) ) =>
                hotel_data[1].tennis_facilities.lessons_cost =
                    Strip(AfterFirst(LastRow.value, ":"))

\* C17: what consolidate_all_files returns, called on a store just set up, is
\* the number of rows of the hotels table when it finishes, whatever the
\* files hold.
C17_ReturnsRowCount ==
    (total_hotels # None /\ total_hotels[1].fresh) =>
        total_hotels[1].returned = total_hotels[1].hotels

\* How a call of geocode_location ended that obtained no data.
NoData == {"error", "empty"}

\* The step made one more call for the pair, and it ended as one of hows.
CalledAndEnded(pair, hows) ==
    /\ Len(geo_calls'[pair]) = Len(geo_calls[pair]) + 1
    /\ geo_calls'[pair][Len(geo_calls'[pair])] \in hows

\* C18: a call of geocode_location answered with an error or an empty list
\* returns None; a step in which the call for a pair ended so leaves the
\* pair's cache entry as it was, and, unless a call for the same location
\* obtained data in the same step, the hotel rows and the geocoding rows of
\* the location; when every call of the step ended so, the store, the cache
\* and the cache file are unchanged; update_database_geocoding calls
\* geocode_location for every pair it selected, whatever the earlier calls
\* obtained.
C18_FailedLookupLeavesNoTrace ==
    /\ [](\A pair \in GeoPairs : \A answer \in {ApiError, ApiEmpty} :
             CacheKey(pair[1], pair[2]) \notin DOMAIN cache =>
                 GeocodeLocation(GeoState, pair[1], pair[2], answer, "ok").returned = None)
    /\ [][\A pair \in GeoPairs :
             CalledAndEnded(pair, NoData) =>
                 /\ CacheKey(pair[1], pair[2]) \notin DOMAIN cache'
                 /\ (\A other \in GeoPairs :
                        other[1] = pair[1] => ~CalledAndEnded(other, {"result", "cached"})) =>
                        /\ {h \in db'.hotels : h.location = pair[1]} =
                               {h \in db.hotels : h.location = pair[1]}
                        /\ {r \in db'.geocoding : r.location_string = pair[1]} =
                               {r \in db.geocoding : r.location_string = pair[1]}]_vars
    /\ [][(\E pair \in GeoPairs : CalledAndEnded(pair, NoData))
             /\ (\A pair \in GeoPairs : ~CalledAndEnded(pair, {"result", "cached"}))
          => (db' = db /\ cache' = cache /\ cache_file' = cache_file)]_vars
    /\ [][GeoUpdateDatabaseGeocoding =>
             \A pair \in LocationsToGeocode(db) :
                 Len(geo_calls'[pair]) = Len(geo_calls[pair]) + 1]_vars

\* The lookup of "Rome, Italy" obtained an empty list, the one of "Rome" a
\* result: only the second is cached, and the geocoding table has its row.
C18_Witness ==
    /\ geo_calls[<< <<"Rome">>, <<"Italy">> >>] = <<"empty">>
    /\ geo_calls[<< <<"Rome">>, <<>> >>] = <<"result">>
    /\ DOMAIN cache = {CacheKey(<<"Rome">>, <<>>)}
    /\ Cardinality(db.geocoding) = 1

\* One sequence starts with the other.
StartsWith(seq, start) ==
    Len(start) <= Len(seq) /\ SubSeq(seq, 1, Len(start)) = start

\* C19: the checkpoint of a page, written or not, leaves the accumulated list
\* as it was and is followed by the last-page test, never by the handler of
\* the walk; the list only grows while the walk runs; and a checkpoint that is
\* written puts the whole list, the pages of dropped checkpoints included,
\* into the page file and the latest file.
C19_DroppedCheckpointNotFatal ==
    /\ [][pc = "sh_checkpoint" =>
             /\ all_hotels_data' = all_hotels_data
             /\ current_page' = current_page
             /\ pc' = (IF current_page >= total_pages THEN "sh_close" ELSE "sh_navigate")
             /\ ckpt_ok' =>
                   /\ disk'[CheckpointFile(current_page)] = Json(all_hotels_data)
                   /\ disk'[LatestFile] = Json(all_hotels_data)]_vars
    /\ [][(pc \in WalkPcs /\ pc' \in WalkPcs) =>
             StartsWith(all_hotels_data', all_hotels_data)]_vars

\* The files of page 1 were not written, the walk went on to page 2, and the
\* checkpoint of page 2 wrote the record of page 1 with the one of page 2.
C19_Witness ==
    /\ pc \in WalkPcs
    /\ CompletedPages = 2
    /\ disk[CheckpointFile(1)].state # "json"
    /\ ckpt_ok
    /\ disk[LatestFile].state = "json"
    /\ Len(OfPage(disk[LatestFile].data, 1)) = 1
    /\ Len(OfPage(disk[LatestFile].data, 2)) = 1

\* C20: a run of the Amadeus tab in which "Search Hotels" was clicked raises
\* nothing out of the tab, and shows the result table, a warning or an error
\* message.
C20_SearchEndsInTableOrMessage ==
    (dash.script = "dashboard" /\ dash.searched) =>
        /\ dash.raised = None
        /\ \E i \in 1..Len(dash.shown) :
              dash.shown[i] \in {"table",
                                 "warning: No hotels found matching your criteria",
                                 "error: Amadeus API not initialized",
                                 "error: API Error", "error: Error"}

\* C21: the table search_hotels returns, when the service returned a hotel,
\* has the columns the test script and the dashboard select from it.
C21_TableHasTheColumnsRead ==
    dash.df.rows > 0 =>
        {"name", "rating", "price_total", "currency", "room_type", "board_type"}
            \subseteq dash.df.columns

\* The rule a lowered label falls under, in the order of the claim, and the
\* facility fields of each rule.
RuleOf(label) ==
    IF \/ Contains(label, <<"number of all ", "tennis ", "court", "s">>)
       \/ Contains(label, <<"tennis ", "court", "s", " total">>) THEN "total courts"
    ELSE IF Contains(label, <<"lighted">>) /\ Contains(label, <<"court">>) THEN "lighted courts"
    ELSE IF Contains(label, <<"terrain">>) \/ Contains(label, <<"surface">>) THEN "surface"
    ELSE IF Contains(label, <<"opening hours">>) THEN "opening hours"
    ELSE IF Contains(label, <<"cost">>) /\ Contains(label, <<"court">>) THEN "court cost"
    ELSE IF Contains(label, <<"tennis ", "lessons">>) THEN "tennis lessons"
    ELSE "none"
FieldsOf(rule) ==
    CASE rule = "total courts" -> {"total_courts"}
      [] rule = "lighted courts" -> {"lighted_courts"}
      [] rule = "surface" -> {"court_surfaces", "surface_counts"}
      [] rule = "opening hours" -> {"opening_hours"}
      [] rule = "court cost" -> {"court_cost"}
      [] rule = "tennis lessons" -> {"lessons_available", "lessons_cost"}
      [] OTHER -> {}

\* C22: the last row of a panel changes no facility field outside the first
\* rule, in the order total courts, lighted courts, surface, opening hours,
\* court cost, tennis lessons, that its label falls under; a row that falls
\* under no rule, or has fewer than two spans, changes nothing; a label with
\* "lighted", "court" and "cost" sets lighted_courts from the digits of the
\* value.
C22_FirstMatchWins ==
    (pc = "x_returned" /\ fragment.panel.present) =>
        /\ hotel_data # None
        /\ \A field \in DOMAIN hotel_data[1].tennis_facilities :
              (~LastRow.spans_ok \/ field \notin FieldsOf(RuleOf(LowerText(LastRow.label)))) =>
                  hotel_data[1].tennis_facilities[field] = BeforeLastRow[field]
        /\ ( /\ LastRow.spans_ok
              /\ LabelHas(<<"lighted">>) /\ LabelHas(<<"court">>) /\ LabelHas(<<"cost">>)
              /\ ~HasTotalPhrase
              /\ DecimalDigits(LastRow.value) # <<>>
              /\ ~Contains(LastRow.value, <<"sup2">>) ) =>
                hotel_data[1].tennis_facilities.lighted_courts =
                    DecimalValue(DecimalDigits(LastRow.value))

\* "Lighted court cost" with the value "2" set the lighted courts to 2 and
\* left the court cost empty.
C22_Witness ==
    /\ PanelRead
    /\ LastRow.label = <<"Lighted", " ", "court", " ", "cost">>
    /\ LastRow.value = <<"2">>
    /\ hotel_data # None
    /\ hotel_data[1].tennis_facilities.lighted_courts = 2
    /\ hotel_data[1].tennis_facilities.court_cost = <<>>

\* C23: every prices row and every tennis_facilities row belongs to a row of
\* hotels, every court_surfaces row to a row of tennis_facilities, and no
\* hotel has two prices rows or two tennis_facilities rows.
C23_RowsBelongToHotels ==
    /\ \A p \in db.prices : \E h \in db.hotels : h.id = p.hotel_id
    /\ \A t \in db.tennis_facilities : \E h \in db.hotels : h.id = t.hotel_id
    /\ \A c \in db.court_surfaces : \E t \in db.tennis_facilities : t.id = c.facility_id
    /\ \A p, q \in db.prices : p.hotel_id = q.hotel_id => p = q
    /\ \A t, u \in db.tennis_facilities : t.hotel_id = u.hotel_id => t = u

\* The records of a file that a pass reaches: those before the first record
\* without the key "name", which ends the pass.
Reached(data) ==
    {j \in 1..Len(data) : \A k \in 1..(j - 1) : "name" \in DOMAIN data[k]}

\* The records of a file whose inserts all succeed.
Accepted(data) ==
    {j \in Reached(data) :
        /\ Insertable(data[j])
        /\ PriceBinds(data[j])
        /\ SurfaceCountsIsObject(data[j])}

\* The row counts before the i-th entry of the log.
CountsBefore(i) == IF i = 1 THEN RowCounts(EmptyDB) ELSE passes[i - 1].counts

\* C24: an insert_hotel_data call that does not return True leaves the store
\* exactly as it was, whichever of its statements failed; so a pass over a
\* file adds prices, tennis_facilities and court_surfaces rows for the
\* records whose inserts all succeed and for no other.
C24_AllOrNothing ==
    /\ \A hd \in StoreRecords :
          InsertHotelData(db, hd, clock).result # "true" =>
              InsertHotelData(db, hd, clock).db = db
    /\ \A i \in 1..Len(passes) :
          (passes[i].file # <<>> /\ disk[passes[i].file].state = "json") =>
              /\ passes[i].counts.prices - CountsBefore(i).prices =
                     Cardinality(Accepted(disk[passes[i].file].data))
              /\ passes[i].counts.tennis_facilities - CountsBefore(i).tennis_facilities =
                     Cardinality(Accepted(disk[passes[i].file].data))
              /\ passes[i].counts.court_surfaces - CountsBefore(i).court_surfaces =
                     Cardinality({jk \in Accepted(disk[passes[i].file].data) \X (1..2) :
                         jk[2] <= Len(disk[passes[i].file].data[jk[1]].tennis_facilities.surface_counts)})

\* A pass over a file with a good record and then a record whose
\* surface_counts cannot be read: one insert counted, and the rows of the
\* good record alone.
C24_Witness ==
    /\ Len(passes) >= 1
    /\ passes[1].file = LatestFile
    /\ disk[LatestFile] = Json(<<StoreRecord1, BadSurfacesRecord>>)
    /\ passes[1].returned = 1
    /\ passes[1].counts.hotels = 1
    /\ passes[1].counts.prices = 1
    /\ passes[1].counts.tennis_facilities = 1

\* The records of the files a consolidation reads.
RecordsRead(d) ==
    UNION {{d[n].data[i] : i \in 1..Len(d[n].data)} :
              n \in {f \in Consolidated(d) : d[f].state = "json"}}

\* A hotels row as insert_hotel_data writes it from a record.
DerivedFrom(row, hd) ==
    /\ "name" \in DOMAIN hd
    /\ row.name = hd.name
    /\ row.location = Get(hd, "location", <<>>)
    /\ row.country = Get(hd, "country", <<>>)
    /\ row.star_rating = Get(hd, "star_rating", 0)

\* C25: a consolidation (the store constructed, then consolidate_all_files)
\* leaves a store with no geocoding row and with hotels rows that each carry
\* the name, location and country of a record of the files read, whatever the
\* store held before, and it leaves the geocode cache file as it was.
C25_ConsolidationDiscardsStore ==
    [][passes' # passes =>
          /\ db'.geocoding = {}
          /\ \A row \in db'.hotels : \E hd \in RecordsRead(disk) : DerivedFrom(row, hd)
          /\ cache_file' = cache_file
          /\ cache' = cache]_vars

\* A consolidation has run after the geocoder: the cache file holds an entry,
\* the store has no geocoding row, and the hotel scraped without a country
\* has none, the country back-filled before being gone.
C25_Witness ==
    /\ pc = "geo_ready"
    /\ Len(passes) > 0
    /\ cache_file.state = "json"
    /\ DOMAIN cache_file.data # {}
    /\ db.geocoding = {}
    /\ \E row \in db.hotels : row.name = <<"Plaza">> /\ row.country = <<>>
    /\ \E pair \in GeoPairs : \E i \in 1..Len(geo_calls[pair]) : geo_calls[pair][i] = "result"

\* C26: a page-numbered checkpoint file of the walk is written only after the
\* listings of its page were extracted and appended to the accumulated list,
\* the checkpoint of the error path included.
C26_CheckpointAfterItsPage ==
    \A k \in 1..(MaxPages + 1) :
        disk[CheckpointFile(k)].state = "json" =>
            \E i \in 1..Len(extracted) : extracted[i] = k

\* The record lists of the per-country output files on disk, concatenated in
\* the order of the country list from its i-th country on.
RECURSIVE CountryFilesFrom(_, _)
CountryFilesFrom(d, i) ==
    IF i > Len(european_countries) THEN <<>>
    ELSE (IF d[CountryFile(european_countries[i])].state = "json"
          THEN d[CountryFile(european_countries[i])].data
          ELSE <<>>) \o CountryFilesFrom(d, i + 1)

\* C27: when scrape_all_countries has finished and no write failed, the
\* combined file holds the record lists of the per-country files that were
\* written, concatenated in the order of the country list; a country whose
\* sweep failed has no per-country file and no record in the combined file,
\* and a country that did not fail has its file.
C27_CombinedIsTheCountryFiles ==
    (pc = "sc_done" /\ faults = 0) =>
        /\ disk[CombinedFile] = Json(CountryFilesFrom(disk, 1))
        /\ \A j \in 1..Len(sweepLog) :
              IF sweepLog[j].failed
              THEN /\ disk[CountryFile(sweepLog[j].country)] = Absent
                   /\ \A i \in 1..Len(disk[CombinedFile].data) :
                         disk[CombinedFile].data[i].source_country # sweepLog[j].country
              ELSE disk[CountryFile(sweepLog[j].country)] = Json(sweepLog[j].records)

\* A sweep without a failed write: the first country failed after its first
\* page was extracted and saved, the second was swept, and the combined file
\* holds the records of the second only.
C27_Witness ==
    /\ pc = "sc_done"
    /\ faults = 0
    /\ sweepLog[1].failed
    /\ disk[CountryCheckpointFile(european_countries[1], 1)].state = "json"
    /\ disk[CountryCheckpointFile(european_countries[1], 1)].data # <<>>
    /\ disk[CountryFile(european_countries[1])] = Absent
    /\ disk[CountryFile(european_countries[2])].state = "json"
    /\ disk[CountryFile(european_countries[2])].data # <<>>
    /\ disk[CombinedFile] = disk[CountryFile(european_countries[2])]

\* The surface texts of the rows that fall under the surface rule, in order.
RECURSIVE SurfaceTexts(_)
SurfaceTexts(rows) ==
    IF rows = <<>> THEN <<>>
    ELSE (IF Head(rows).spans_ok /\ RuleOf(LowerText(Head(rows).label)) = "surface"
          THEN Head(rows).surfaces ELSE <<>>) \o SurfaceTexts(Tail(rows))

\* A surface text of the form "<name> Number of courts: <n>", n one decimal digit.
NamesACount(text) ==
    /\ Len(text) = 5
    /\ text[2] = " " /\ text[3] = "Number of courts:" /\ text[4] = " "
    /\ text[5] \in Digits

\* C28: in a record the extractor returns, court_surfaces has no duplicate,
\* surface_counts has one count per name and its names are those of
\* court_surfaces; every name comes from a surface text of the form
\* "<name> Number of courts: <n>", and the count of a name is the n of the
\* last such text with that name.
C28_SurfaceNamesAndCounts ==
    (pc = "x_returned" /\ hotel_data # None) =>
        LET tf == hotel_data[1].tennis_facilities
            texts == SurfaceTexts(fragment.panel.rows)
        IN  /\ \A i, j \in 1..Len(tf.court_surfaces) :
                  tf.court_surfaces[i] = tf.court_surfaces[j] => i = j
            /\ \A i, j \in 1..Len(tf.surface_counts) :
                  tf.surface_counts[i].surface = tf.surface_counts[j].surface => i = j
            /\ {tf.court_surfaces[i] : i \in 1..Len(tf.court_surfaces)} =
                   {tf.surface_counts[i].surface : i \in 1..Len(tf.surface_counts)}
            /\ \A i \in 1..Len(tf.court_surfaces) :
                  \E j \in 1..Len(texts) :
                      NamesACount(texts[j]) /\ tf.court_surfaces[i] = <<texts[j][1]>>
            /\ \A j \in 1..Len(texts) :
                  ( /\ NamesACount(texts[j])
                    /\ ~\E k \in (j + 1)..Len(texts) :
                           NamesACount(texts[k]) /\ texts[k][1] = texts[j][1] ) =>
                      \E i \in 1..Len(tf.surface_counts) :
                          tf.surface_counts[i] =
                              [surface |-> <<texts[j][1]>>,
                               count |-> DecimalValue(<<texts[j][5]>>)]

\* Two surface rows, "Clay" with 3 courts and then with 5 and with 2: one
\* name "Clay" with the last count, 2.
C28_Witness ==
    /\ pc = "x_returned"
    /\ hotel_data # None
    /\ Len(SurfaceTexts(fragment.panel.rows)) = 5
    /\ SurfaceTexts(fragment.panel.rows)[1] = <<"Clay", " ", "Number of courts:", " ", "3">>
    /\ hotel_data[1].tennis_facilities.court_surfaces = << <<"Clay">>, <<"Grass">> >>
    /\ hotel_data[1].tennis_facilities.surface_counts =
           << [surface |-> <<"Clay">>, count |-> 2], [surface |-> <<"Grass">>, count |-> 1] >>

\* C29: in a record the extractor returns, the currency of the price is "GBP"
\* exactly when the amount is present and "USD" exactly when it is absent; the
\* amount is absent when the listing has no price box, when the box has no
\* amount element, and when the amount text does not parse, and present when
\* the text is a currency glyph and digits.
C29_CurrencyFollowsAmount ==
    (pc = "x_returned" /\ hotel_data # None) =>
        /\ hotel_data[1].price.currency = "GBP" <=> hotel_data[1].price.amount # None
        /\ hotel_data[1].price.currency = "USD" <=> hotel_data[1].price.amount = None
        /\ ( \/ ~fragment.price_box.present
              \/ ~fragment.price_box.amount.present
              \/ fragment.price_box.amount = Elem(<<"POA">>) ) =>
                hotel_data[1].price.amount = None
        /\ ( /\ fragment.price_box.present
              /\ \E p \in PriceParts : fragment.price_box.amount = Elem(PriceText(p)) ) =>
                hotel_data[1].price.amount # None

\* A price box whose amount reads "POA": no amount, and the default currency.
C29_Witness ==
    /\ pc = "x_returned"
    /\ hotel_data # None
    /\ fragment.price_box.present
    /\ fragment.price_box.amount = Elem(<<"POA">>)
    /\ hotel_data[1].price.amount = None
    /\ hotel_data[1].price.currency = "USD"

\* C30: every record the extractor returns has equipment_rental,
\* tennis_camps, tournaments and tennis_shop false and equipment_cost empty,
\* whatever the rows of the facilities panel.
C30_UnsetFacilityFields ==
    (pc = "x_returned" /\ hotel_data # None) =>
        /\ hotel_data[1].tennis_facilities.equipment_rental = FALSE
        /\ hotel_data[1].tennis_facilities.tennis_camps = FALSE
        /\ hotel_data[1].tennis_facilities.tournaments = FALSE
        /\ hotel_data[1].tennis_facilities.tennis_shop = FALSE
        /\ hotel_data[1].tennis_facilities.equipment_cost = <<>>

\* A panel whose last row reads "Equipment rental: Yes, extra charge: EUR 20":
\* the record has no equipment rental and no equipment cost.
C30_Witness ==
    /\ PanelRead
    /\ LastRow.label = <<"Equipment", " ", "rental">>
    /\ LastRow.value =
           <<"Yes", ",", " ", "extra", " ", "charge", ":", " ", "EUR", " ", "2", "0">>
    /\ hotel_data # None
    /\ hotel_data[1].tennis_facilities.equipment_rental = FALSE
    /\ hotel_data[1].tennis_facilities.equipment_cost = <<>>

====
